---- MODULE Spec2Model ----
(***************************************************************************)
(* Model of the mediclaim claim verifier: the five witnesses of            *)
(* claim-witnesses.ts, the ledger of ClaimVerifierSimulator, the requests  *)
(* of the API wrapper on a deployed simulator, the utilities of            *)
(* api/src/utils, the emailed codes of the attestation service and the     *)
(* services of the API bridge.                                             *)
(***************************************************************************)
EXTENDS Integers, Sequences, FiniteSets, TLC

VARIABLES
    initialized,         \* claim-witnesses.ts: babyJub, eddsa and F are set
    created,             \* a ClaimVerifierSimulator has been constructed
    privateState,        \* circuitContext.currentPrivateState (the rule set)
    now,                 \* the wall clock, Math.floor(Date.now() / 1000)
    claimCounter,        \* ClaimVerifierSimulator.claimCounter
    claims,              \* ClaimVerifierSimulator.claims
    claimStatuses,       \* ClaimVerifierSimulator.claimStatuses
    verificationHashes,  \* ClaimVerifierSimulator.verificationHashes
    returned,            \* the results verifyClaim returned, in call order
    lastCall,            \* arguments and witness outcomes of the last call
    requests,            \* the callTx.verifyClaim / ClaimAPI.verifyClaim
                         \* invocations and how far each has come
    store,               \* privateStateProvider: claimPrivateStateKey
    poseidonImpl,        \* api/src/utils: let poseidonImpl
    logSink,             \* what console.log was handed, in order
    utilCall,            \* the last call of a utility: input and outcome
    nowMs,               \* Date.now() of the services, in milliseconds since
                         \* they were started
    otpStore,            \* attestation/src/crypto.ts: const store
    verifyReqs,          \* the POST /verify requests of the attestation
                         \* service that wait for sendChallengeMail
    mailed,              \* the mails sendChallengeMail has sent
    verifyLast,          \* the last answer of POST /verify
    attestLast,          \* the last POST /attestate and its answer
    consumed,            \* the emails whose code was accepted since it was
                         \* stored
    challengeStore,      \* auth-service.ts: const challengeStore
    sessionStore,        \* auth-service.ts: const sessionStore
    issued,              \* the address each session token was issued for,
                         \* in the order of issue
    revoked,             \* the issued tokens handed to revokeSession
    nonces,              \* the number of nonces drawn by createChallenge
    authLast,            \* the last call of AuthService and its answer
    bridgeLast,          \* the last ClaimVerifierService.verifyClaim and
                         \* its answer
    walletClaims,        \* SimpleAPIService.walletClaims
    simpleReturned       \* what SimpleAPIService.verifyClaim returned, in
                         \* call order

\* The state outside the simulator and its clock.
apiVars == <<requests, store>>
utilVars == <<poseidonImpl, logSink, utilCall>>
attestVars == <<otpStore, verifyReqs, mailed, verifyLast, attestLast, consumed>>
authVars == <<challengeStore, sessionStore, issued, revoked, nonces, authLast>>
bridgeVars == <<bridgeLast, walletClaims, simpleReturned>>
serviceVars == <<nowMs, attestVars, authVars, bridgeVars>>

vars == <<initialized, created, privateState, now, claimCounter, claims,
          claimStatuses, verificationHashes, returned, lastCall,
          apiVars, utilVars, serviceVars>>

(***************************************************************************)
(* Bounds of the model.                                                    *)
(***************************************************************************)
T0 == 1700000000        \* the clock when the process starts (unix seconds)
MaxTicks == 2           \* the clock advances at most MaxTicks days
MaxClaims == 3          \* submissions per simulator in the ledger runs

(***************************************************************************)
(* Enumerations and time constants of the program.                         *)
(***************************************************************************)
MEDICAL_INVOICE == 0
PRESCRIPTION_DRUG == 1
DENTAL_PROCEDURE == 2
VISION_CARE == 3
EMERGENCY_ROOM == 4
ClaimType == {MEDICAL_INVOICE, PRESCRIPTION_DRUG, DENTAL_PROCEDURE,
              VISION_CARE, EMERGENCY_ROOM}

PENDING == 0
APPROVED == 1
REJECTED == 2

OneDay == 24 * 60 * 60
OneYear == 365 * OneDay

(***************************************************************************)
(* Identifiers.  A string is the sequence of its character codes; the      *)
(* code 0 is the NUL character.  The names below are the identifiers of    *)
(* the sample rule set and of the tests.                                   *)
(***************************************************************************)
HOSPITAL_001 == <<1, 1>>
CLINIC_002 == <<1, 2>>
PHARMACY_003 == <<1, 3>>
DENTIST_004 == <<1, 4>>
EYE_CARE_005 == <<1, 5>>
UNAUTHORIZED_PROVIDER == <<1, 9>>
PATIENT_001 == <<2, 1>>
PATIENT_002 == <<2, 2>>
PATIENT_003 == <<2, 3>>
INELIGIBLE_PATIENT == <<2, 9>>

Bytes32Len == 4         \* width of a padded identifier (32 in the program)

\* TextEncoder.encode on these identifiers: one byte per character.
Encode(str) == [kind |-> "bytes", val |-> str]

\* stringToBytes32: the first Bytes32Len bytes, padded with NUL bytes.
stringToBytes32(str) ==
    [kind |-> "bytes",
     val |-> [i \in 1..Bytes32Len |-> IF i <= Len(str) THEN str[i] ELSE 0]]

\* A caller that passes the string itself instead of its bytes.
NotEncoded(str) == [kind |-> "string", val |-> str]

\* new TextDecoder().decode(b).replace(/\0/g, ''): every NUL is removed.
StripNul(s) == SelectSeq(s, LAMBDA c : c # 0)

bytes32ToString(b) == StripNul(b.val)

(***************************************************************************)
(* The EdDSA of circomlibjs (buildBabyjub, buildEddsa), on a group of      *)
(* prime order SubOrder standing for the BabyJubJub subgroup.  A point is  *)
(* <<x, y>>; it is on the curve when y = CurveY(x).  The group element k   *)
(* is Point(k), and Base8 generates the group.                             *)
(***************************************************************************)
SubOrder == 13

CurveY(x) == (x * x + 1) % SubOrder
Point(k) == <<k % SubOrder, CurveY(k % SubOrder)>>
inCurve(P) == P[1] \in 0..(SubOrder - 1) /\ P[2] = CurveY(P[1])
Base8 == Point(1)
addPoint(P, Q) == Point(P[1] + Q[1])
mulPointEscalar(P, s) == Point(P[1] * s)

\* F.e(u8To0xHex(bytes)): the bytes as a field element.
Fe(v) == v % SubOrder

RECURSIVE poseidonFrom(_, _)
poseidonFrom(acc, xs) ==
    IF xs = <<>> THEN acc
    ELSE poseidonFrom((acc * 3 + Head(xs) * 5 + 1) % SubOrder, Tail(xs))

\* eddsa.poseidon: the hash of a list of field elements into the field.
poseidon(xs) == poseidonFrom(Len(xs), xs)

\* eddsa.verifyPoseidon(msg, {R8, S}, A)
verifyPoseidon(msg, sig, A) ==
    /\ inCurve(sig.R8)
    /\ inCurve(A)
    /\ sig.S < SubOrder
    /\ LET hm == poseidon(<<sig.R8[1], sig.R8[2], A[1], A[2], msg>>)
           Pleft == mulPointEscalar(Base8, sig.S)
           Pright == addPoint(sig.R8, mulPointEscalar(A, hm * 8))
       IN  Pleft = Pright

\* eddsa.prv2pub(sk) and eddsa.signPoseidon(sk, msg)
prv2pub(sk) == mulPointEscalar(Base8, sk)

signPoseidon(sk, msg) ==
    LET r == poseidon(<<sk, msg>>)
        R8 == mulPointEscalar(Base8, r)
        A == prv2pub(sk)
        hm == poseidon(<<R8[1], R8[2], A[1], A[2], msg>>)
    IN  [R8 |-> R8, S |-> (r + hm * 8 * sk) % SubOrder]

(***************************************************************************)
(* claim-witnesses.ts.  A witness returns [ClaimPrivateState, boolean] or  *)
(* throws; the outcome is "pass", "fail" or "throw".  None of the          *)
(* witnesses changes the private state it is given.                        *)
(***************************************************************************)
Outcome(b) == IF b THEN "pass" ELSE "fail"

\* ensureInitialized throws unless babyJub, eddsa and F are set.
ensureInitialized(init) == init

\* The body of the try block: Buffer.from of a missing argument throws and
\* the catch block answers false.
VERIFY_CLAIM_SIGNATURE(init, claimHash, pubX, pubY, sigR8x, sigR8y, sigS) ==
    IF ~ensureInitialized(init) THEN "throw"
    ELSE IF \E a \in {claimHash, pubX, pubY, sigR8x, sigR8y, sigS} :
                a.kind # "bytes"
         THEN "fail"
         ELSE LET A == <<Fe(pubX.val), Fe(pubY.val)>>
                  msg == Fe(claimHash.val)
                  R8 == <<Fe(sigR8x.val), Fe(sigR8y.val)>>
                  Sscalar == sigS.val
              IN  Outcome(verifyPoseidon(msg, [R8 |-> R8, S |-> Sscalar], A))

\* Mutant: the cap itself is no longer accepted (amount < maxAmount).
VERIFY_CLAIM_AMOUNT_exclusiveCap(ps, claimType, amount) ==
    IF claimType \notin DOMAIN ps.maxClaimAmounts
          \/ ps.maxClaimAmounts[claimType] = 0
    THEN "fail"
    ELSE Outcome(amount > 0 /\ amount < ps.maxClaimAmounts[claimType])

\* maxClaimAmounts.get(claimType); a missing entry and a cap of 0n are falsy.
VERIFY_CLAIM_AMOUNT(ps, claimType, amount) ==
    IF claimType \notin DOMAIN ps.maxClaimAmounts
          \/ ps.maxClaimAmounts[claimType] = 0
    THEN "fail"
    ELSE Outcome(amount > 0 /\ amount <= ps.maxClaimAmounts[claimType])

\* Mutant: a service date is accepted only on the day it is submitted for.
VERIFY_SERVICE_DATE_sameDay(ps, serviceDate, currentTimestamp) ==
    Outcome(/\ serviceDate >= ps.minServiceDate
            /\ serviceDate <= ps.maxServiceDate
            /\ serviceDate <= currentTimestamp
            /\ serviceDate >= currentTimestamp - OneDay)

\* Mutant: the lower bound of the window is exclusive.
VERIFY_SERVICE_DATE_exclusiveMin(ps, serviceDate, currentTimestamp) ==
    Outcome(/\ serviceDate > ps.minServiceDate
            /\ serviceDate <= ps.maxServiceDate
            /\ serviceDate <= currentTimestamp)

VERIFY_SERVICE_DATE(ps, serviceDate, currentTimestamp) ==
    Outcome(/\ serviceDate >= ps.minServiceDate
            /\ serviceDate <= ps.maxServiceDate
            /\ serviceDate <= currentTimestamp)

\* Mutant: a known provider is authorized for every claim type.
VERIFY_PROVIDER_AUTHORIZATION_anyType(ps, providerId, claimType) ==
    IF providerId.kind # "bytes" THEN "throw"
    ELSE Outcome(bytes32ToString(providerId) \in DOMAIN ps.authorizedProviders)

\* TextDecoder.decode throws a TypeError for an argument that is no buffer.
VERIFY_PROVIDER_AUTHORIZATION(ps, providerId, claimType) ==
    IF providerId.kind # "bytes" THEN "throw"
    ELSE LET providerIdStr == bytes32ToString(providerId)
         IN  IF providerIdStr \notin DOMAIN ps.authorizedProviders THEN "fail"
             ELSE Outcome(claimType \in ps.authorizedProviders[providerIdStr])

\* Mutant: every patient is eligible.
VERIFY_PATIENT_ELIGIBILITY_everyone(ps, patientId, claimType) ==
    IF patientId.kind # "bytes" THEN "throw"
    ELSE "pass"

VERIFY_PATIENT_ELIGIBILITY(ps, patientId, claimType) ==
    IF patientId.kind # "bytes" THEN "throw"
    ELSE Outcome(bytes32ToString(patientId) \in ps.eligiblePatients)

(***************************************************************************)
(* Rule sets.                                                              *)
(***************************************************************************)
createClaimPrivateState(params) ==
    [authorizedProviders |-> params.authorizedProviders,
     eligiblePatients |-> params.eligiblePatients,
     maxClaimAmounts |-> params.maxClaimAmounts,
     minServiceDate |-> params.minServiceDate,
     maxServiceDate |-> params.maxServiceDate]

SampleProviders ==
    (HOSPITAL_001 :> {MEDICAL_INVOICE, EMERGENCY_ROOM})
    @@ (CLINIC_002 :> {MEDICAL_INVOICE, PRESCRIPTION_DRUG, DENTAL_PROCEDURE})
    @@ (PHARMACY_003 :> {PRESCRIPTION_DRUG})
    @@ (DENTIST_004 :> {DENTAL_PROCEDURE})
    @@ (EYE_CARE_005 :> {VISION_CARE})

SamplePatients == {PATIENT_001, PATIENT_002, PATIENT_003}

SampleAmounts ==
    (MEDICAL_INVOICE :> 100000) @@ (PRESCRIPTION_DRUG :> 50000)
    @@ (DENTAL_PROCEDURE :> 200000) @@ (VISION_CARE :> 150000)
    @@ (EMERGENCY_ROOM :> 500000)

\* createSampleClaimPrivateState at the time t of the call.
createSampleClaimPrivateState(t) ==
    createClaimPrivateState(
        [authorizedProviders |-> SampleProviders,
         eligiblePatients |-> SamplePatients,
         maxClaimAmounts |-> SampleAmounts,
         minServiceDate |-> t - OneYear,
         maxServiceDate |-> t + OneDay])

\* A rule set handed to ClaimVerifierSimulator.create by the caller: the
\* vision cap is missing, the dental cap is 0 and the date window is fixed.
CustomAmounts ==
    (MEDICAL_INVOICE :> 100000) @@ (PRESCRIPTION_DRUG :> 50000)
    @@ (DENTAL_PROCEDURE :> 0) @@ (EMERGENCY_ROOM :> 500000)

CustomParams ==
    [authorizedProviders |-> SampleProviders,
     eligiblePatients |-> SamplePatients,
     maxClaimAmounts |-> CustomAmounts,
     minServiceDate |-> T0 - 30 * OneDay,
     maxServiceDate |-> T0 + OneDay]

RuleSetOptions == {"sample", "custom"}

(***************************************************************************)
(* Strings of the verification hash: a string is the sequence of its       *)
(* ASCII codes.                                                            *)
(***************************************************************************)
RECURSIVE toDecimal(_)
toDecimal(n) ==
    IF n < 0 THEN <<45>> \o toDecimal(0 - n)
    ELSE IF n < 10 THEN <<48 + n>>
    ELSE toDecimal(n \div 10) \o <<48 + (n % 10)>>

BoolToString(b) == IF b THEN <<116, 114, 117, 101>>
                   ELSE <<102, 97, 108, 115, 101>>

\* `${Date.now()}` of a clock that stands on a whole second t.
DateNowString(t) == toDecimal(t) \o <<48, 48, 48>>

HexDigit(d) == IF d < 10 THEN 48 + d ELSE 87 + d

\* Buffer.from(data).toString("hex"): two hex digits per byte.
toHex(bytes) ==
    [i \in 1..(2 * Len(bytes)) |->
        IF i % 2 = 1 THEN HexDigit(bytes[(i + 1) \div 2] \div 16)
        ELSE HexDigit(bytes[i \div 2] % 16)]

\* String.prototype.padStart with a one-character pad string.
padStart(str, targetLength, padChar) ==
    IF Len(str) >= targetLength THEN str
    ELSE [i \in 1..(targetLength - Len(str)) |-> padChar] \o str

HashPadLength == 64

\* ClaimVerifierSimulator.generateVerificationHash
generateVerificationHash(claimId, claim, isValid, t) ==
    LET data == toDecimal(claimId) \o <<45>> \o toDecimal(claim.claimType)
                \o <<45>> \o toDecimal(claim.amount) \o <<45>>
                \o BoolToString(isValid) \o <<45>> \o DateNowString(t)
    IN  <<48, 120>> \o padStart(toHex(data), HashPadLength, 48)

(***************************************************************************)
(* ClaimVerifierSimulator                                                  *)
(***************************************************************************)
EmptyMap == [k \in {} |-> 0]
\* Mutant: the map is replaced by one that holds the new entry only.
MapSet_replace(m, k, v) == (k :> v)

\* Map.prototype.set
MapSet(m, k, v) == (k :> v) @@ m

NoPrivateState ==
    [authorizedProviders |-> EmptyMap, eligiblePatients |-> {},
     maxClaimAmounts |-> EmptyMap, minServiceDate |-> 0, maxServiceDate |-> 0]

NoCall == [made |-> FALSE]

\* The invocations that may be in flight on one deployment.
MaxRequests == 2
Requests == 1..MaxRequests

\* An invocation that has not started.
NoRequest ==
    [pc |-> "idle", via |-> "none", result |-> FALSE, ledgerId |-> -1,
     payload |-> [present |-> FALSE], claimId |-> -1]

\* privateStateProvider.get answers null before the first set.
NoStoredState == [present |-> FALSE]

\* let poseidonImpl: PoseidonLike | null = null
NoHasher == "null"

NoUtilCall == [fn |-> "none"]

\* The POST /verify requests the attestation service serves at a time.
MaxVerifyReqs == 2
VerifyReqs == 1..MaxVerifyReqs

\* No request in service, and a service that was not called yet.
NoVerifyReq == [pc |-> "idle"]
NoAnswer == [made |-> FALSE, turn |-> FALSE]

Init ==
    /\ initialized = FALSE
    /\ created = FALSE
    /\ privateState = NoPrivateState
    /\ now = T0
    /\ claimCounter = 0
    /\ claims = EmptyMap
    /\ claimStatuses = EmptyMap
    /\ verificationHashes = EmptyMap
    /\ returned = <<>>
    /\ lastCall = NoCall
    /\ requests = [r \in Requests |-> NoRequest]
    /\ store = NoStoredState
    /\ poseidonImpl = NoHasher
    /\ logSink = <<>>
    /\ utilCall = NoUtilCall
    /\ nowMs = 0
    /\ otpStore = EmptyMap
    /\ verifyReqs = [r \in VerifyReqs |-> NoVerifyReq]
    /\ mailed = {}
    /\ verifyLast = NoAnswer
    /\ attestLast = NoAnswer
    /\ consumed = {}
    /\ challengeStore = EmptyMap
    /\ sessionStore = EmptyMap
    /\ issued = <<>>
    /\ revoked = {}
    /\ nonces = 0
    /\ authLast = NoAnswer
    /\ bridgeLast = NoAnswer
    /\ walletClaims = EmptyMap
    /\ simpleReturned = <<>>

\* The clock advances by one day.
Tick ==
    /\ now < T0 + MaxTicks * OneDay
    /\ now' = now + OneDay
    /\ UNCHANGED <<initialized, created, privateState, claimCounter, claims,
                   claimStatuses, verificationHashes, returned, lastCall>>
    /\ UNCHANGED <<apiVars, utilVars, serviceVars>>

\* ClaimVerifierSimulator.create(params): initClaimWitnesses, then the
\* constructor with the sample rule set of this moment or the caller's.
Create(opt) ==
    /\ ~created
    /\ initialized' = TRUE
    /\ created' = TRUE
    /\ privateState' = IF opt = "sample"
                       THEN createSampleClaimPrivateState(now)
                       ELSE createClaimPrivateState(CustomParams)
    /\ claimCounter' = 0
    /\ claims' = EmptyMap
    /\ claimStatuses' = EmptyMap
    /\ verificationHashes' = EmptyMap
    /\ UNCHANGED <<now, returned, lastCall>>

\* The five witness calls of verifyClaim in order; a witness after one that
\* threw is not evaluated.  The public key handed to the signature witness
\* is (signatureR8x, signatureR8y).
WitnessOutcomes(init, ps, args, currentTimestamp) ==
    LET sig == VERIFY_CLAIM_SIGNATURE(init, args.claimHash,
                   args.signatureR8x, args.signatureR8y,
                   args.signatureR8x, args.signatureR8y, args.signatureS)
        amount == IF sig = "throw" THEN "skipped"
                  ELSE VERIFY_CLAIM_AMOUNT(ps, args.claimType, args.amount)
        date == IF sig = "throw" THEN "skipped"
                ELSE VERIFY_SERVICE_DATE(ps, args.serviceDate,
                                         currentTimestamp)
        provider == IF sig = "throw" THEN "skipped"
                    ELSE VERIFY_PROVIDER_AUTHORIZATION(ps, args.providerId,
                                                       args.claimType)
        patient == IF sig = "throw" \/ provider = "throw" THEN "skipped"
                   ELSE VERIFY_PATIENT_ELIGIBILITY(ps, args.patientId,
                                                   args.claimType)
    IN  [sig |-> sig, amount |-> amount, date |-> date,
         provider |-> provider, patient |-> patient]

\* Mutant: the patient result is left out of the conjunction.
IsValid_withoutPatient(w) ==
    /\ w.sig = "pass"
    /\ w.amount = "pass"
    /\ w.date = "pass"
    /\ w.provider = "pass"
    /\ w.patient \in {"pass", "fail"}

\* Mutant: the catch block leaves a verdict of true.
IsValid_catchTrue(w) ==
    \A k \in DOMAIN w : w[k] # "fail"

\* isValid of verifyClaim: the conjunction, or false from the catch block.
IsValid(w) ==
    /\ w.sig = "pass"
    /\ w.amount = "pass"
    /\ w.date = "pass"
    /\ w.provider = "pass"
    /\ w.patient = "pass"

\* Mutant: the counter is incremented before it is read (++claimCounter).
AssignedClaimId_preIncrement(counter) == counter + 1

\* const claimId = this.claimCounter++
AssignedClaimId(counter) == counter

StatusOf(isValid) == IF isValid THEN APPROVED ELSE REJECTED

\* ClaimVerifierSimulator.verifyClaim(args).  providerPub is the provider's
\* public key of the submission, which callTx.verifyClaim receives as
\* (_providerPubX, _providerPubY) and does not hand on; it is only recorded.
verifyClaim(args, providerPub) ==
    /\ created
    /\ LET claim == [claimType |-> args.claimType, amount |-> args.amount,
                     serviceDate |-> args.serviceDate,
                     providerId |-> args.providerId,
                     patientId |-> args.patientId,
                     description |-> args.description,
                     metadata |-> args.metadata]
           claimId == AssignedClaimId(claimCounter)
           w == WitnessOutcomes(initialized, privateState, args, now)
           isValid == IsValid(w)
           status == StatusOf(isValid)
           verificationHash ==
               generateVerificationHash(claimId, claim, isValid, now)
       IN  /\ claimCounter' = claimCounter + 1
           /\ claims' = MapSet(claims, claimId, claim)
           /\ claimStatuses' = MapSet(claimStatuses, claimId, status)
           /\ verificationHashes' =
                  MapSet(verificationHashes, claimId, verificationHash)
           /\ returned' = Append(returned,
                  [isValid |-> isValid, claimId |-> claimId,
                   verificationHash |-> verificationHash,
                   status |-> status, timestamp |-> now])
           /\ lastCall' = [made |-> TRUE, args |-> args, witnesses |-> w,
                           providerPub |-> providerPub]
    /\ UNCHANGED <<initialized, created, privateState, now>>

\* ClaimVerifierSimulator.getClaimStatus / getClaimVerificationHash
getClaimStatus(claimId) ==
    IF claimId \in DOMAIN claimStatuses THEN claimStatuses[claimId]
    ELSE PENDING

getClaimVerificationHash(claimId) ==
    IF claimId \in DOMAIN verificationHashes THEN verificationHashes[claimId]
    ELSE <<>>

(***************************************************************************)
(* Submissions.                                                            *)
(***************************************************************************)
Bytes(v) == [kind |-> "bytes", val |-> v]
Missing == [kind |-> "missing", val |-> 0]

TEST_CLAIM_HASH == Bytes(1)

\* The secret key of the provider and the public key it denotes.
ProviderSk == 3
ProviderPub == prv2pub(ProviderSk)

\* The signatures a submission may carry over the claim hash:
\*   "provider"  signed with the provider's key (signClaimVerification);
\*   "selfKeyed" made without any secret key, to verify under the public
\*               key A = R8: S = r * (1 + 8 * H(R8, R8, msg));
\*   "offCurve"  the bytes of the tests, fill(2), fill(3), fill(4);
\*   "missing"   no signatureS at all.
SignatureKinds == {"provider", "selfKeyed", "offCurve", "missing"}

SignatureOf(kind, claimHash) ==
    LET msg == Fe(claimHash.val)
        honest == signPoseidon(ProviderSk, msg)
        R8 == Point(2)
        h == poseidon(<<R8[1], R8[2], R8[1], R8[2], msg>>)
    IN  CASE kind = "provider" ->
               [signatureR8x |-> Bytes(honest.R8[1]),
                signatureR8y |-> Bytes(honest.R8[2]),
                signatureS |-> Bytes(honest.S)]
          [] kind = "selfKeyed" ->
               [signatureR8x |-> Bytes(R8[1]), signatureR8y |-> Bytes(R8[2]),
                signatureS |-> Bytes((2 * (1 + 8 * h)) % SubOrder)]
          [] kind = "offCurve" ->
               [signatureR8x |-> Bytes(2), signatureR8y |-> Bytes(3),
                signatureS |-> Bytes(4)]
          [] OTHER ->
               [signatureR8x |-> Bytes(2), signatureR8y |-> Bytes(3),
                signatureS |-> Missing]

MakeArgs(claimType, amount, serviceDate, providerId, patientId, sigKind) ==
    LET sig == SignatureOf(sigKind, TEST_CLAIM_HASH)
    IN  [claimType |-> claimType, amount |-> amount,
         serviceDate |-> serviceDate, providerId |-> providerId,
         patientId |-> patientId, description |-> "Test claim",
         metadata |-> "{}", claimHash |-> TEST_CLAIM_HASH,
         signatureR8x |-> sig.signatureR8x,
         signatureR8y |-> sig.signatureR8y,
         signatureS |-> sig.signatureS]

AmountsFor(ps, claimType) ==
    {0, 50000} \cup
    (IF claimType \in DOMAIN ps.maxClaimAmounts
     THEN {ps.maxClaimAmounts[claimType], ps.maxClaimAmounts[claimType] + 1}
     ELSE {})

DatesFor(ps, t) ==
    {t + 1, t, t - OneDay, ps.minServiceDate - 1, ps.minServiceDate,
     ps.maxServiceDate, ps.maxServiceDate + 1}

ProviderIds ==
    {Encode(HOSPITAL_001), Encode(CLINIC_002), stringToBytes32(PHARMACY_003),
     Encode(EYE_CARE_005), Encode(UNAUTHORIZED_PROVIDER),
     Bytes(<<1, 0, 1>>), NotEncoded(HOSPITAL_001)}

PatientIds == {Encode(PATIENT_001), Encode(INELIGIBLE_PATIENT)}

\* The submissions of the test suite, relative to the time t of the call:
\* a claim every witness accepts and, for each witness, one it alone refuses.
LedgerArgs(t) ==
    {MakeArgs(MEDICAL_INVOICE, 50000, t - OneDay, Encode(HOSPITAL_001),
              Encode(PATIENT_001), "selfKeyed"),
     MakeArgs(MEDICAL_INVOICE, 50000, t - OneDay, Encode(HOSPITAL_001),
              Encode(PATIENT_001), "offCurve"),
     MakeArgs(MEDICAL_INVOICE, 150000, t - OneDay, Encode(HOSPITAL_001),
              Encode(PATIENT_001), "selfKeyed"),
     MakeArgs(MEDICAL_INVOICE, 50000, t + OneDay, Encode(HOSPITAL_001),
              Encode(PATIENT_001), "selfKeyed"),
     MakeArgs(MEDICAL_INVOICE, 50000, t - OneDay,
              Encode(UNAUTHORIZED_PROVIDER), Encode(PATIENT_001),
              "selfKeyed"),
     MakeArgs(MEDICAL_INVOICE, 50000, t - OneDay, Encode(HOSPITAL_001),
              Encode(INELIGIBLE_PATIENT), "selfKeyed")}

(***************************************************************************)
(* Specifications.                                                         *)
(***************************************************************************)
CreateSimulator ==
    /\ \E opt \in RuleSetOptions : Create(opt)
    /\ UNCHANGED <<apiVars, utilVars, serviceVars>>

\* A simulator that serves up to MaxClaims submissions.
LedgerVerifyClaim ==
    /\ claimCounter < MaxClaims
    /\ \E args \in LedgerArgs(now) : verifyClaim(args, ProviderPub)
    /\ UNCHANGED <<apiVars, utilVars, serviceVars>>

Next == Tick \/ CreateSimulator \/ LedgerVerifyClaim

Spec == Init /\ [][Next]_vars

\* The first submission on a fresh simulator, over every combination of
\* claim fields.
FirstVerifyClaim ==
    /\ claimCounter = 0
    /\ \E ct \in ClaimType, sd \in DatesFor(privateState, now),
          pr \in ProviderIds, pa \in PatientIds, sk \in SignatureKinds :
         \E am \in AmountsFor(privateState, ct) :
             verifyClaim(MakeArgs(ct, am, sd, pr, pa, sk), ProviderPub)
    /\ UNCHANGED <<apiVars, utilVars, serviceVars>>

NextWitness == Tick \/ CreateSimulator \/ FirstVerifyClaim

SpecWitness == Init /\ [][NextWitness]_vars

TypeOK ==
    /\ initialized \in BOOLEAN
    /\ created \in BOOLEAN
    /\ claimCounter \in Nat
    /\ DOMAIN claims = 0..(claimCounter - 1)
    /\ Len(returned) = claimCounter

(***************************************************************************)
(* Properties.                                                             *)
(***************************************************************************)
LastResult == returned[Len(returned)]
Called == lastCall.made /\ Len(returned) > 0

\* The outcomes of the four witnesses other than k are all "pass".
OthersPass(w, k) == \A j \in DOMAIN w : j # k => w[j] = "pass"

\* C1: the isValid that verifyClaim returns is the conjunction of the five
\* witness results, the status is APPROVED exactly when isValid is true and
\* REJECTED otherwise, and one failing witness among five yields REJECTED.
C1_VerdictIsConjunction ==
    Called =>
        LET w == lastCall.witnesses
            r == LastResult
        IN  /\ r.isValid = (/\ w.sig = "pass"
                            /\ w.amount = "pass"
                            /\ w.date = "pass"
                            /\ w.provider = "pass"
                            /\ w.patient = "pass")
            /\ (r.status = APPROVED) = r.isValid
            /\ (r.status = REJECTED) = ~r.isValid
            /\ \A k \in DOMAIN w :
                   (w[k] # "pass" /\ OthersPass(w, k)) => r.status = REJECTED

\* A submission whose only failing witness is patient eligibility was
\* rejected after an approved one.
C1_Witness ==
    /\ Called
    /\ lastCall.witnesses.patient = "fail"
    /\ OthersPass(lastCall.witnesses, "patient")
    /\ LastResult.status = REJECTED
    /\ \E i \in 1..Len(returned) : returned[i].status = APPROVED

\* The signature of the last submission verifies over its claim hash under
\* the public key A.
SignatureVerifiesUnder(A) ==
    LET a == lastCall.args
    IN  /\ a.signatureR8x.kind = "bytes"
        /\ a.signatureR8y.kind = "bytes"
        /\ a.signatureS.kind = "bytes"
        /\ verifyPoseidon(Fe(a.claimHash.val),
               [R8 |-> <<Fe(a.signatureR8x.val), Fe(a.signatureR8y.val)>>,
                S |-> a.signatureS.val], A)

\* C2: a submission is APPROVED only if its signature verifies over the
\* claim hash under the provider's public key.
C2_ApprovedOnlyIfProviderSigned ==
    (Called /\ LastResult.status = APPROVED)
        => SignatureVerifiesUnder(lastCall.providerPub)

\* C3: the claimIds returned on one simulator are 0, 1, ..., N-1 in call
\* order, whatever the verdicts.
C3_ClaimIdsInCallOrder ==
    /\ \A i \in 1..Len(returned) : returned[i].claimId = i - 1
    /\ claimCounter = Len(returned)

\* Three submissions with both verdicts among them.
C3_Witness ==
    /\ Len(returned) >= 3
    /\ \E i, j \in 1..Len(returned) :
           returned[i].status = APPROVED /\ returned[j].status = REJECTED

\* C4: the amount witness passes exactly when the claim type has a cap K and
\* 0 < amount <= K; with the other four witnesses passing, amount = K (for
\* a positive cap) is approved, amount = K + 1 and amount = 0 are rejected,
\* and a claim type without a cap is rejected.
C4_AmountBoundary ==
    (Called /\ lastCall.witnesses.amount # "skipped") =>
        LET a == lastCall.args
            w == lastCall.witnesses
            caps == privateState.maxClaimAmounts
            hasCap == a.claimType \in DOMAIN caps
        IN  /\ (w.amount = "pass")
                   = (hasCap /\ 0 < a.amount /\ a.amount <= caps[a.claimType])
            /\ OthersPass(w, "amount") =>
                   /\ (hasCap /\ caps[a.claimType] > 0
                         /\ a.amount = caps[a.claimType])
                          => LastResult.status = APPROVED
                   /\ (hasCap /\ a.amount = caps[a.claimType] + 1)
                          => LastResult.status = REJECTED
                   /\ a.amount = 0 => LastResult.status = REJECTED
                   /\ ~hasCap => LastResult.status = REJECTED

\* A claim for exactly the cap of its type was approved.
C4_Witness ==
    /\ Called
    /\ lastCall.args.claimType \in DOMAIN privateState.maxClaimAmounts
    /\ lastCall.args.amount
           = privateState.maxClaimAmounts[lastCall.args.claimType]
    /\ LastResult.status = APPROVED

\* C5: the date witness passes exactly when minServiceDate <= serviceDate
\* <= maxServiceDate and serviceDate <= currentTimestamp; with the other
\* four witnesses passing, serviceDate = now + 1 and serviceDate =
\* minServiceDate - 1 are rejected, and serviceDate = minServiceDate is
\* approved when the window is not empty and has begun.
C5_DateBoundary ==
    (Called /\ lastCall.witnesses.date # "skipped") =>
        LET a == lastCall.args
            w == lastCall.witnesses
            ps == privateState
            t == LastResult.timestamp
        IN  /\ (w.date = "pass")
                   = (/\ ps.minServiceDate <= a.serviceDate
                      /\ a.serviceDate <= ps.maxServiceDate
                      /\ a.serviceDate <= t)
            /\ OthersPass(w, "date") =>
                   /\ a.serviceDate = t + 1 => LastResult.status = REJECTED
                   /\ a.serviceDate = ps.minServiceDate - 1
                          => LastResult.status = REJECTED
                   /\ (/\ a.serviceDate = ps.minServiceDate
                       /\ ps.minServiceDate <= ps.maxServiceDate
                       /\ ps.minServiceDate <= t)
                          => LastResult.status = APPROVED

\* A claim dated exactly minServiceDate was approved.
C5_Witness ==
    /\ Called
    /\ lastCall.args.serviceDate = privateState.minServiceDate
    /\ LastResult.status = APPROVED

\* C6: a submission is APPROVED only if the provider identifier it carries
\* has an entry in authorizedProviders and that entry holds the claim type.
C6_ApprovedOnlyIfProviderAuthorized ==
    (Called /\ LastResult.status = APPROVED) =>
        LET a == lastCall.args
        IN  /\ a.providerId.kind = "bytes"
            /\ bytes32ToString(a.providerId)
                   \in DOMAIN privateState.authorizedProviders
            /\ a.claimType
                   \in privateState.authorizedProviders[
                           bytes32ToString(a.providerId)]

\* A known provider that is not authorized for the claim type was rejected
\* although the other four witnesses passed.
C6_Witness ==
    /\ Called
    /\ lastCall.args.providerId.kind = "bytes"
    /\ bytes32ToString(lastCall.args.providerId)
           \in DOMAIN privateState.authorizedProviders
    /\ lastCall.witnesses.provider = "fail"
    /\ OthersPass(lastCall.witnesses, "provider")
    /\ LastResult.status = REJECTED

\* C7: a submission is APPROVED only if its patient identifier is a member
\* of eligiblePatients.
C7_ApprovedOnlyIfPatientEligible ==
    (Called /\ LastResult.status = APPROVED) =>
        /\ lastCall.args.patientId.kind = "bytes"
        /\ bytes32ToString(lastCall.args.patientId)
               \in privateState.eligiblePatients

\* A claim for a patient outside eligiblePatients was rejected although the
\* other four witnesses passed.
C7_Witness ==
    /\ Called
    /\ lastCall.args.patientId.kind = "bytes"
    /\ bytes32ToString(lastCall.args.patientId)
           \notin privateState.eligiblePatients
    /\ OthersPass(lastCall.witnesses, "patient")
    /\ LastResult.status = REJECTED

\* The last submission met an error or a missing rule-set entry.
MetUncertainty ==
    LET a == lastCall.args
        w == lastCall.witnesses
    IN  \/ \E k \in DOMAIN w : w[k] = "throw"
        \/ a.claimType \notin DOMAIN privateState.maxClaimAmounts
        \/ a.providerId.kind # "bytes"
        \/ bytes32ToString(a.providerId)
               \notin DOMAIN privateState.authorizedProviders
        \/ a.signatureS.kind # "bytes"

\* C8: a submission that raises an error in a witness or meets a missing
\* rule-set entry still returns a result, with isValid false, and is
\* recorded as REJECTED.
C8_FailClosed ==
    (Called /\ MetUncertainty) =>
        /\ Len(returned) = claimCounter
        /\ LastResult.isValid = FALSE
        /\ LastResult.status = REJECTED
        /\ getClaimStatus(LastResult.claimId) = REJECTED

\* The provider witness threw while the witnesses before it passed.
C8_Witness ==
    /\ Called
    /\ lastCall.witnesses.provider = "throw"
    /\ lastCall.witnesses.sig = "pass"
    /\ lastCall.witnesses.amount = "pass"
    /\ lastCall.witnesses.date = "pass"
    /\ LastResult.status = REJECTED

\* The rule set is the sample rule set, built at some moment.
SampleRuleSet ==
    /\ created
    /\ privateState
           = createSampleClaimPrivateState(privateState.maxServiceDate - OneDay)

\* C9: under the sample rule set, at any verification time t the date
\* witness accepts d exactly when t - 365 days <= d <= t.
C9_RollingWindow ==
    (Called /\ SampleRuleSet /\ lastCall.witnesses.date # "skipped") =>
        LET d == lastCall.args.serviceDate
            t == LastResult.timestamp
        IN  (lastCall.witnesses.date = "pass")
                = (t - OneYear <= d /\ d <= t)

\* C10: every result carries a non-empty verification hash, and the status
\* and the hash stored under its claimId are those of the result, also
\* after later submissions.
C10_RecordsKept ==
    \A i \in 1..Len(returned) :
        /\ returned[i].verificationHash # <<>>
        /\ getClaimStatus(returned[i].claimId) = returned[i].status
        /\ getClaimVerificationHash(returned[i].claimId)
               = returned[i].verificationHash

\* A rejected submission is still on record after two later submissions.
C10_Witness ==
    /\ Len(returned) >= 3
    /\ returned[1].status = REJECTED
    /\ getClaimStatus(returned[1].claimId) = REJECTED
    /\ getClaimVerificationHash(returned[1].claimId) # <<>>

\* The number of entries of the map m that hold the value v.
CountOf(m, v) == Cardinality({k \in DOMAIN m : m[k] = v})

\* Mutant: a rejected record is counted as pending.
getClaimStats_rejectedAsPending ==
    [total |-> Cardinality(DOMAIN claims),
     approved |-> CountOf(claimStatuses, APPROVED),
     rejected |-> 0,
     pending |-> CountOf(claimStatuses, REJECTED)
                     + CountOf(claimStatuses, PENDING)]

\* ClaimVerifierSimulator.getClaimStats: claims.size and one pass over
\* claimStatuses.
getClaimStats ==
    [total |-> Cardinality(DOMAIN claims),
     approved |-> CountOf(claimStatuses, APPROVED),
     rejected |-> CountOf(claimStatuses, REJECTED),
     pending |-> CountOf(claimStatuses, PENDING)]

\* The number of results returned so far with the status s.
ReturnedWith(s) ==
    Cardinality({i \in 1..Len(returned) : returned[i].status = s})

\* C11: after any sequence of verifyClaim calls getClaimStats returns total
\* = the number of calls, approved = the number of calls that returned
\* APPROVED, rejected = the number that returned REJECTED, approved +
\* rejected + pending = total and pending = 0.
C11_StatsMatchCalls ==
    LET stats == getClaimStats
    IN  /\ stats.total = Len(returned)
        /\ stats.approved = ReturnedWith(APPROVED)
        /\ stats.rejected = ReturnedWith(REJECTED)
        /\ stats.approved + stats.rejected + stats.pending = stats.total
        /\ stats.pending = 0
        /\ \A k \in DOMAIN claimStatuses : getClaimStatus(k) # PENDING

\* Three submissions were made, one of them approved and two rejected.
C11_Witness ==
    /\ Len(returned) = 3
    /\ getClaimStats.approved = 1
    /\ getClaimStats.rejected = 2

(***************************************************************************)
(* Resubmission: the caller hands the arguments of the last submission to  *)
(* verifyClaim once more, at the same moment or after the clock advanced.  *)
(***************************************************************************)
Resubmit ==
    /\ lastCall.made
    /\ claimCounter < MaxClaims
    /\ verifyClaim(lastCall.args, lastCall.providerPub)
    /\ UNCHANGED <<apiVars, utilVars, serviceVars>>

NextResubmit == Tick \/ CreateSimulator \/ LedgerVerifyClaim \/ Resubmit

SpecResubmit == Init /\ [][NextResubmit]_vars

\* The step is a submission of the arguments of the submission before it.
SameClaimAgain ==
    /\ lastCall.made
    /\ Len(returned') = Len(returned) + 1
    /\ lastCall'.args = lastCall.args
    /\ privateState' = privateState

\* C12: for a fixed rule set, a claim that was found valid and is submitted
\* again, at the same or a later time, gets the same isValid and the same
\* status; the timestamp does not go back.
C12_SameVerdictAgain ==
    [][(SameClaimAgain /\ LastResult.isValid) =>
          /\ LastResult'.isValid = LastResult.isValid
          /\ LastResult'.status = LastResult.status
          /\ LastResult'.timestamp >= LastResult.timestamp]_vars

\* The same claim was approved twice, the second time at a later moment and
\* under another claimId and hash.
C12_Witness ==
    /\ Len(returned) >= 2
    /\ LET n == Len(returned)
       IN  /\ claims[n - 1] = claims[n - 2]
           /\ returned[n - 1].status = APPROVED
           /\ returned[n].status = APPROVED
           /\ returned[n].timestamp > returned[n - 1].timestamp
           /\ returned[n].claimId # returned[n - 1].claimId
           /\ returned[n].verificationHash # returned[n - 1].verificationHash

(***************************************************************************)
(* What a caller can compute from a verification hash it was handed.       *)
(***************************************************************************)
HexValue(c) == IF c >= 97 THEN c - 87 ELSE c - 48

\* The bytes that a string of hex digits denotes.
fromHex(h) ==
    [i \in 1..(Len(h) \div 2) |->
        16 * HexValue(h[2 * i - 1]) + HexValue(h[2 * i])]

RECURSIVE fromDecimal(_)
fromDecimal(str) ==
    IF str = <<>> THEN 0
    ELSE 10 * fromDecimal(SubSeq(str, 1, Len(str) - 1)) + (str[Len(str)] - 48)

\* The position of the first "-" of str after position from.
NextDash(str, from) ==
    CHOOSE i \in (from + 1)..Len(str) :
        str[i] = 45 /\ \A j \in (from + 1)..(i - 1) : str[j] # 45

\* The third "-"-separated field of the text that the hash spells out in
\* hex after its "0x" and its padding.
amountFromHash(hash) ==
    LET text == StripNul(fromHex(SubSeq(hash, 3, Len(hash))))
        d1 == NextDash(text, 0)
        d2 == NextDash(text, d1)
        d3 == NextDash(text, d2)
    IN  fromDecimal(SubSeq(text, d2 + 1, d3 - 1))

\* Every hash handed out spells the amount of its claim.
AmountReadBack ==
    \A i \in 1..Len(returned) :
        amountFromHash(getClaimVerificationHash(returned[i].claimId))
            = claims[returned[i].claimId].amount

\* The result verifyClaim would have handed out for the last submission had
\* its amount been am.
ResultWithAmount(am) ==
    LET a == [lastCall.args EXCEPT !.amount = am]
        r == LastResult
        isValid == IsValid(WitnessOutcomes(initialized, privateState, a,
                                           r.timestamp))
    IN  [isValid |-> isValid, claimId |-> r.claimId,
         verificationHash |->
             generateVerificationHash(r.claimId, a, isValid, r.timestamp),
         status |-> StatusOf(isValid), timestamp |-> r.timestamp]

\* C13: the values handed to the caller do not disclose the amount: two
\* submissions that differ only in the amount and get the same verdict get
\* the same result, so the amount cannot be read back from the hash.
C13_AmountNotDisclosed ==
    Called =>
        \A am \in AmountsFor(privateState, lastCall.args.claimType) :
            ResultWithAmount(am).isValid = LastResult.isValid
                => ResultWithAmount(am) = LastResult

(***************************************************************************)
(* ClaimAPI on a simulator-backed deployment.  An invocation is a direct   *)
(* call of callTx.verifyClaim or one through ClaimAPI.verifyClaim; it runs *)
(* to its first await in one piece and is resumed when the promise it      *)
(* waits for is settled, in any order with the other invocations.          *)
(***************************************************************************)
\* Math.floor(Math.random() * RandomIdRange)
RandomIdRange == 3
RandomClaimIds == 0..(RandomIdRange - 1)

RequestKinds == {"callTx", "ClaimAPI"}

\* ClaimVerifierSimulator.getState
getState ==
    [claimCounter |-> claimCounter, claims |-> claims,
     claimStatuses |-> claimStatuses,
     verificationHashes |-> verificationHashes]

\* deploy: initClaimWitnesses, ClaimVerifierSimulator.create() and
\* restoreState of the simulatorState the provider holds, if any.
Deploy ==
    /\ ~created
    /\ initialized' = TRUE
    /\ created' = TRUE
    /\ privateState' = createSampleClaimPrivateState(now)
    /\ claimCounter' = IF store.present THEN store.simulatorState.claimCounter
                       ELSE 0
    /\ claims' = IF store.present THEN store.simulatorState.claims
                 ELSE EmptyMap
    /\ claimStatuses' = IF store.present
                        THEN store.simulatorState.claimStatuses
                        ELSE EmptyMap
    /\ verificationHashes' = IF store.present
                             THEN store.simulatorState.verificationHashes
                             ELSE EmptyMap
    /\ UNCHANGED <<now, returned, lastCall, apiVars, utilVars, serviceVars>>

\* The invocation starts: simulator.verifyClaim runs, then the invocation
\* waits for privateStateProvider.get.
Invoke(r) ==
    /\ requests[r].pc = "idle"
    /\ \E args \in LedgerArgs(now) : verifyClaim(args, ProviderPub)
    /\ \E via \in RequestKinds :
           requests' = [requests EXCEPT ![r] =
               [pc |-> "get", via |-> via,
                result |-> returned'[Len(returned')].isValid,
                ledgerId |-> returned'[Len(returned')].claimId,
                payload |-> [present |-> FALSE], claimId |-> -1]]
    /\ UNCHANGED <<store, utilVars, serviceVars>>

\* privateStateProvider.get is settled: the invocation reads
\* simulator.getState() and waits for privateStateProvider.set.
GetSettled(r) ==
    /\ requests[r].pc = "get"
    /\ requests' = [requests EXCEPT ![r].pc = "set",
                       ![r].payload = [present |-> TRUE,
                                       simulatorState |-> getState]]
    /\ UNCHANGED <<initialized, created, privateState, now, claimCounter,
                   claims, claimStatuses, verificationHashes, returned,
                   lastCall, store, utilVars, serviceVars>>

\* privateStateProvider.set is settled and callTx.verifyClaim returns
\* public.claimId = res.claimId; ClaimAPI.verifyClaim returns
\* txData.public.claimId || BigInt(Math.floor(Math.random() * 1000000)).
SetSettled(r) ==
    /\ requests[r].pc = "set"
    /\ store' = requests[r].payload
    /\ \E random \in RandomClaimIds :
           requests' = [requests EXCEPT ![r].pc = "done",
               ![r].claimId =
                   IF requests[r].via = "ClaimAPI" /\ requests[r].ledgerId = 0
                   THEN random
                   ELSE requests[r].ledgerId]
    /\ UNCHANGED <<initialized, created, privateState, now, claimCounter,
                   claims, claimStatuses, verificationHashes, returned,
                   lastCall, utilVars, serviceVars>>

NextConcurrent ==
    \/ Deploy
    \/ \E r \in Requests : Invoke(r)
    \/ \E r \in Requests : GetSettled(r)
    \/ \E r \in Requests : SetSettled(r)

SpecConcurrent == Init /\ [][NextConcurrent]_vars

\* The simulator gave different claimIds to the invocations that reached it.
LedgerIdsUnique ==
    \A r1, r2 \in Requests :
        (r1 # r2 /\ requests[r1].pc # "idle" /\ requests[r2].pc # "idle")
            => requests[r1].ledgerId # requests[r2].ledgerId

\* Two invocations were in flight at once.
InFlightTogether ==
    \E r1, r2 \in Requests :
        r1 # r2 /\ requests[r1].pc = "get" /\ requests[r2].pc = "get"

\* C14: no two invocations on the same simulator end with the same claimId,
\* under every interleaving of their steps.
C14_NoDuplicateClaimId ==
    \A r1, r2 \in Requests :
        (r1 # r2 /\ requests[r1].pc = "done" /\ requests[r2].pc = "done")
            => requests[r1].claimId # requests[r2].claimId

(***************************************************************************)
(* What a witness returns: [privateState, valid], or nothing when it       *)
(* throws or is not reached.                                               *)
(***************************************************************************)
\* Mutant: the witness returns a rule set without the amount caps.
witnessReturn_withoutCaps(ps, outcome) ==
    IF outcome \in {"pass", "fail"}
    THEN [returns |-> TRUE,
          privateState |-> [ps EXCEPT !.maxClaimAmounts = EmptyMap],
          valid |-> (outcome = "pass")]
    ELSE [returns |-> FALSE]

\* return [privateState, valid]
witnessReturn(ps, outcome) ==
    IF outcome \in {"pass", "fail"}
    THEN [returns |-> TRUE, privateState |-> ps, valid |-> (outcome = "pass")]
    ELSE [returns |-> FALSE]

\* The five returns of a submission with the witness outcomes w.
WitnessReturns(ps, w) == [k \in DOMAIN w |-> witnessReturn(ps, w[k])]

\* C15: each witness returns the private state it was given, and no step
\* after the construction of the simulator changes the rule set.
C15_WitnessesKeepRuleSet ==
    [][created =>
          /\ privateState' = privateState
          /\ lastCall' # lastCall =>
                 \A k \in DOMAIN lastCall'.witnesses :
                     LET ret == WitnessReturns(privateState,
                                               lastCall'.witnesses)[k]
                     IN  ret.returns => ret.privateState = privateState]_vars

\* Three submissions were made under the caller's rule set, which is still
\* the one handed to create.
C15_Witness ==
    /\ Len(returned) >= 3
    /\ \E i \in 1..Len(returned) : returned[i].status = APPROVED
    /\ privateState = createClaimPrivateState(CustomParams)

(***************************************************************************)
(* api/src/utils: assertNoPHI.  A payload is a value over a heap of        *)
(* objects and arrays: the heap maps an address to a node, and a value is  *)
(* a primitive, null or a reference to a node.  An object node has keys    *)
(* with primitive values and may hold one more value under the key         *)
(* "nested"; an array node holds at most one element.  A node may refer to *)
(* itself or to a node that refers back.                                   *)
(***************************************************************************)
MaxNodes == 2
Nodes == 1..MaxNodes

PHI_KEYS == {"patientId", "providerId", "serviceCodes", "invoiceAmount"}

\* The keys with primitive values that the payloads use.
PayloadKeys == {"claimId", "patientId"}

Prim == [t |-> "prim"]
Null == [t |-> "null"]
Ref(n) == [t |-> "ref", node |-> n]

NodeValues ==
    [kind : {"object", "array"}, keys : SUBSET PayloadKeys,
     child : 0..MaxNodes]

Heaps == [Nodes -> NodeValues]
RootValues == {Prim, Null} \cup {Ref(n) : n \in Nodes}

\* typeof v === "object" with v not null, and Array.isArray(v)
IsObjectValue(v) == v.t = "ref"
IsArrayValue(heap, v) == v.t = "ref" /\ heap[v.node].kind = "array"

\* Object.entries(obj) of an object node: its keys.
EntryKeys(node) ==
    node.keys \cup (IF node.child # 0 THEN {"nested"} ELSE {})

\* The values of the entries that are pushed: objects that are no arrays.
PushedValues(heap, node) ==
    IF node.child # 0 /\ ~IsArrayValue(heap, Ref(node.child))
    THEN <<Ref(node.child)>>
    ELSE <<>>

\* The while loop of assertNoPHI over the stack and the set seen.
RECURSIVE assertNoPHILoop(_, _, _)
assertNoPHILoop(heap, stack, seen) ==
    IF stack = <<>> THEN "returns"
    ELSE LET cur == stack[Len(stack)]
             rest == SubSeq(stack, 1, Len(stack) - 1)
         IN  IF ~IsObjectValue(cur) \/ IsArrayValue(heap, cur)
             THEN assertNoPHILoop(heap, rest, seen)
             ELSE IF cur.node \in seen
             THEN assertNoPHILoop(heap, rest, seen)
             ELSE IF EntryKeys(heap[cur.node]) \cap PHI_KEYS # {}
             THEN "throws"
             ELSE assertNoPHILoop(heap,
                      rest \o PushedValues(heap, heap[cur.node]),
                      seen \cup {cur.node})

\* assertNoPHI(obj): "returns" or "throws".
assertNoPHI(heap, obj) ==
    IF ~IsObjectValue(obj) THEN "returns"
    ELSE assertNoPHILoop(heap, <<obj>>, {})

\* The boundary guard is applied to a payload.
AssertNoPHI ==
    /\ utilCall = NoUtilCall
    /\ \E heap \in Heaps, obj \in RootValues :
           utilCall' = [fn |-> "assertNoPHI", heap |-> heap, obj |-> obj,
                        outcome |-> assertNoPHI(heap, obj)]
    /\ UNCHANGED <<initialized, created, privateState, now, claimCounter,
                   claims, claimStatuses, verificationHashes, returned,
                   lastCall, apiVars, serviceVars,
                   poseidonImpl, logSink>>

NextPHI == AssertNoPHI

SpecPHI == Init /\ [][NextPHI]_vars

\* The nodes of the object graph of the value v: those reached through
\* objects and arrays alike.
RECURSIVE GraphFrom(_, _)
GraphFrom(heap, reached) ==
    LET more == reached \cup
                ({heap[n].child : n \in reached} \ {0})
    IN  IF more = reached THEN reached ELSE GraphFrom(heap, more)

ObjectGraph(heap, v) ==
    IF v.t = "ref" THEN GraphFrom(heap, {v.node}) ELSE {}

\* A private key name occurs as a key somewhere in the object graph.
PHIKeyPresent(heap, v) ==
    \E n \in ObjectGraph(heap, v) :
        heap[n].kind = "object" /\ EntryKeys(heap[n]) \cap PHI_KEYS # {}

\* C16: assertNoPHI raises an error for every payload in which a private
\* key name occurs as a key anywhere in the object graph, and returns
\* normally only when there is none.
C16_PHIGuardFindsEveryKey ==
    utilCall.fn = "assertNoPHI" =>
        (utilCall.outcome = "throws")
            = PHIKeyPresent(utilCall.heap, utilCall.obj)

\* On payloads without arrays the guard finds every private key, also in a
\* cycle of objects.
PHIGuardOnObjects ==
    (/\ utilCall.fn = "assertNoPHI"
     /\ \A n \in ObjectGraph(utilCall.heap, utilCall.obj) :
            utilCall.heap[n].kind = "object")
        => (utilCall.outcome = "throws")
               = PHIKeyPresent(utilCall.heap, utilCall.obj)

(***************************************************************************)
(* api/src/utils: safeLogPublic.  A payload is an object with primitive    *)
(* values under some keys, a primitive, null or an array.                  *)
(***************************************************************************)
MaxLogs == 1

PUBLIC_INPUT_KEYS ==
    {"claimId", "commitmentHash", "timestamp", "policyId", "policyMax"}

\* The keys and values that the logged payloads use.
LogKeys == {"claimId", "timestamp", "isValid", "patientId"}
LogValues == {"v1", "v2"}
LogPrefixes == {"[public]", "[attestation]"}

LogObjects == UNION {[ks -> LogValues] : ks \in SUBSET LogKeys}

LogPayloads ==
    {[t |-> "object", entries |-> o] : o \in LogObjects}
    \cup {[t |-> "prim", entries |-> <<v>>] : v \in LogValues}
    \cup {[t |-> "array", entries |-> <<v>>] : v \in LogValues}
    \cup {[t |-> "null", entries |-> <<>>]}

\* Mutant: every value is copied to the output.
safeLogOut_copyAll(obj) ==
    IF obj.t = "object"
    THEN [k \in DOMAIN obj.entries |-> obj.entries[k]]
    ELSE [k \in {"message"} |-> "[non-object payload]"]

\* The record out that safeLogPublic hands to console.log.
safeLogOut(obj) ==
    IF obj.t = "object"
    THEN [k \in DOMAIN obj.entries |->
             IF k \in PUBLIC_INPUT_KEYS THEN obj.entries[k]
             ELSE "[REDACTED]"]
    ELSE [k \in {"message"} |-> "[non-object payload]"]

\* safeLogPublic(obj, prefix): console.log(prefix, out)
SafeLogPublic ==
    /\ Len(logSink) < MaxLogs
    /\ \E obj \in LogPayloads, prefix \in LogPrefixes :
           /\ logSink' = Append(logSink,
                                [prefix |-> prefix, out |-> safeLogOut(obj)])
           /\ utilCall' = [fn |-> "safeLogPublic", obj |-> obj]
    /\ UNCHANGED <<initialized, created, privateState, now, claimCounter,
                   claims, claimStatuses, verificationHashes, returned,
                   lastCall, apiVars, serviceVars,
                   poseidonImpl>>

NextLog == SafeLogPublic

SpecLog == Init /\ [][NextLog]_vars

\* The payload obj with the value v under its key k.
WithValue(obj, k, v) ==
    [obj EXCEPT !.entries = [j \in DOMAIN obj.entries |->
                                 IF j = k THEN v ELSE obj.entries[j]]]

Str(codes) == [t |-> "string", val |-> codes]
Undefined == [t |-> "undefined"]
Num(twice) == [t |-> "number", kind |-> "finite", twice |-> twice]
NaN == [t |-> "number", kind |-> "NaN", twice |-> 0]
Infinity == [t |-> "number", kind |-> "Infinity", twice |-> 0]

\* Number.isFinite(v)
NumberIsFinite(v) == v.t = "number" /\ v.kind = "finite"

\* Number.isInteger(v), v > 0 and v <= 0 of a number
NumberIsInteger(v) == NumberIsFinite(v) /\ v.twice % 2 = 0
GreaterThanZero(v) ==
    v.t = "number" /\ (v.kind = "Infinity" \/ (v.kind = "finite" /\ v.twice > 0))
AtMostZero(v) == v.t = "number" /\ v.kind = "finite" /\ v.twice <= 0

IsHexDigit(c) ==
    c \in 48..57 \/ c \in 97..102 \/ c \in 65..70

\* /^0x[0-9a-fA-F]+$/.test(v)
IsOxHex(v) ==
    /\ v.t = "string"
    /\ Len(v.val) >= 3
    /\ v.val[1] = 48
    /\ v.val[2] = 120
    /\ \A i \in 3..Len(v.val) : IsHexDigit(v.val[i])

publicInputsFromClaim(claim, commitmentHash, policyMax) ==
    IF ~NumberIsFinite(policyMax) \/ AtMostZero(policyMax)
    THEN [returns |-> FALSE, error |-> "policyMax must be a positive number"]
    ELSE IF ~IsOxHex(commitmentHash)
    THEN [returns |-> FALSE, error |-> "commitmentHash must be 0x-hex"]
    ELSE IF ~NumberIsFinite(claim.timestamp) \/ AtMostZero(claim.timestamp)
    THEN [returns |-> FALSE, error |-> "timestamp must be positive number"]
    ELSE [returns |-> TRUE,
          payload |-> [claimId |-> claim.claimId,
                       commitmentHash |-> commitmentHash,
                       timestamp |-> claim.timestamp,
                       policyId |-> claim.policyId,
                       policyMax |-> policyMax]]

\* The arguments of the calls: "claim-1" and "POLICY-BASIC-1000" stand as
\* one-character strings; 0x1f, 0xAB, 0x, 1f, 0xg1 and 0X1f.
ClaimIdValues == {Str(<<99>>), Num(10), Undefined}
PolicyIdValues == {Str(<<80>>), Undefined}
NumberValues == {Num(-2), Num(0), Num(2), Num(3), Num(2000), NaN, Infinity}
HashValues ==
    {Str(<<48, 120, 49, 102>>), Str(<<48, 120, 65, 66>>), Str(<<48, 120>>),
     Str(<<49, 102>>), Str(<<48, 120, 103, 49>>), Str(<<48, 88, 49, 102>>),
     Undefined}

PublicInputsFromClaim ==
    /\ utilCall = NoUtilCall
    /\ \E claimId \in ClaimIdValues, policyId \in PolicyIdValues,
          timestamp \in NumberValues, commitmentHash \in HashValues,
          policyMax \in NumberValues :
         LET claim == [claimId |-> claimId, timestamp |-> timestamp,
                       policyId |-> policyId]
         IN  utilCall' =
                 [fn |-> "publicInputsFromClaim", claim |-> claim,
                  commitmentHash |-> commitmentHash, policyMax |-> policyMax,
                  outcome |-> publicInputsFromClaim(claim, commitmentHash,
                                                    policyMax)]
    /\ UNCHANGED <<initialized, created, privateState, now, claimCounter,
                   claims, claimStatuses, verificationHashes, returned,
                   lastCall, apiVars, serviceVars,
                   poseidonImpl, logSink>>

NextPublicInputs == PublicInputsFromClaim

SpecPublicInputs == Init /\ [][NextPublicInputs]_vars

\* C18: publicInputsFromClaim returns a payload only when claimId and
\* policyId are strings, commitmentHash is 0x-prefixed hex, timestamp is
\* greater than 0 and policyMax is an integer greater than 0; otherwise it
\* fails and returns no payload.
C18_PayloadOnlyIfValid ==
    (utilCall.fn = "publicInputsFromClaim" /\ utilCall.outcome.returns) =>
        /\ utilCall.claim.claimId.t = "string"
        /\ utilCall.claim.policyId.t = "string"
        /\ IsOxHex(utilCall.commitmentHash)
        /\ GreaterThanZero(utilCall.claim.timestamp)
        /\ NumberIsInteger(utilCall.policyMax)
        /\ GreaterThanZero(utilCall.policyMax)

\* What publicInputsFromClaim does check: a payload is returned exactly when
\* policyMax and timestamp are finite and positive and commitmentHash is
\* 0x-prefixed hex.
PublicInputsChecked ==
    utilCall.fn = "publicInputsFromClaim" =>
        utilCall.outcome.returns
            = (/\ NumberIsFinite(utilCall.policyMax)
               /\ GreaterThanZero(utilCall.policyMax)
               /\ IsOxHex(utilCall.commitmentHash)
               /\ NumberIsFinite(utilCall.claim.timestamp)
               /\ GreaterThanZero(utilCall.claim.timestamp))

\* A payload was returned for string identifiers and policyMax = 1.5.
FractionalPolicyMaxAccepted ==
    /\ utilCall.fn = "publicInputsFromClaim"
    /\ utilCall.outcome.returns
    /\ utilCall.claim.claimId.t = "string"
    /\ utilCall.claim.policyId.t = "string"
    /\ utilCall.policyMax = Num(3)

(***************************************************************************)
(* api/src/utils: the field adapters and computeCommitment.  A function    *)
(* that may throw answers [ok |-> TRUE, value |-> v] or [ok |-> FALSE].    *)
(***************************************************************************)
Value(v) == [ok |-> TRUE, value |-> v]
Throws == [ok |-> FALSE, value |-> 0]

IsSpace(c) == c \in {9, 10, 13, 32}

\* String.prototype.trim
trim(str) ==
    IF \A i \in DOMAIN str : IsSpace(str[i]) THEN <<>>
    ELSE LET first == CHOOSE i \in DOMAIN str :
                          ~IsSpace(str[i]) /\ \A j \in 1..(i - 1) : IsSpace(str[j])
             last == CHOOSE i \in DOMAIN str :
                         ~IsSpace(str[i])
                         /\ \A j \in (i + 1)..Len(str) : IsSpace(str[j])
         IN  SubSeq(str, first, last)

\* String.prototype.toUpperCase
toUpperCase(str) ==
    [i \in DOMAIN str |-> IF str[i] \in 97..122 THEN str[i] - 32 ELSE str[i]]

\* codes.map((c) => c.trim().toUpperCase()).filter((c) => c.length > 0)
normalizeServiceCodes(codes) ==
    SelectSeq([i \in DOMAIN codes |-> toUpperCase(trim(codes[i]))],
              LAMBDA c : c # <<>>)

\* parseInt(ch, 36) of a character in 0-9 A-Z
parseInt36(ch) == IF ch \in 48..57 THEN ch - 48 ELSE ch - 55

\* The loop acc = acc * 36n + v over the characters of norm.
RECURSIVE base36Pack(_)
base36Pack(norm) ==
    IF norm = <<>> THEN 0
    ELSE base36Pack(SubSeq(norm, 1, Len(norm) - 1)) * 36
             + parseInt36(norm[Len(norm)])

encodeServiceCode(code) ==
    LET norm == toUpperCase(trim(code))
    IN  IF norm = <<>>
           \/ \E i \in DOMAIN norm : norm[i] \notin (48..57) \cup (65..90)
        THEN Throws
        ELSE Value(base36Pack(norm))

encodeServiceCodes(codes) ==
    LET norm == normalizeServiceCodes(codes)
    IN  IF \E i \in DOMAIN norm : ~encodeServiceCode(norm[i]).ok THEN Throws
        ELSE Value([i \in DOMAIN norm |-> encodeServiceCode(norm[i]).value])

HexValueOf(c) ==
    IF c \in 48..57 THEN c - 48 ELSE IF c \in 97..102 THEN c - 87 ELSE c - 55

RECURSIVE hexDigitsValue(_)
hexDigitsValue(digits) ==
    IF digits = <<>> THEN 0
    ELSE hexDigitsValue(SubSeq(digits, 1, Len(digits) - 1)) * 16
             + HexValueOf(digits[Len(digits)])

\* hexToBigInt of a string that starts with 0x or 0X; BigInt("0x") throws.
hexToBigInt(hex) ==
    LET digits == SubSeq(hex, 3, Len(hex))
    IN  IF digits = <<>> \/ \E i \in DOMAIN digits : ~IsHexDigit(digits[i])
        THEN Throws
        ELSE Value(hexDigitsValue(digits))

\* /^-?\d+$/.test(str) and BigInt(str)
decimalToBigInt(str) ==
    LET digits == IF str # <<>> /\ str[1] = 45 THEN Tail(str) ELSE str
    IN  IF digits = <<>> \/ \E i \in DOMAIN digits : digits[i] \notin 48..57
        THEN Throws
        ELSE Value(IF digits = str THEN fromDecimal(digits)
                   ELSE 0 - fromDecimal(digits))

\* toField of a number or a string
toField(input) ==
    IF input.t = "number"
    THEN IF NumberIsInteger(input) THEN Value(input.twice \div 2) ELSE Throws
    ELSE LET str == trim(input.val)
         IN  IF Len(str) >= 2 /\ str[1] = 48 /\ str[2] \in {120, 88}
             THEN hexToBigInt(str)
             ELSE decimalToBigInt(str)

\* x.toString(16) of x >= 0
RECURSIVE toString16(_)
toString16(x) ==
    IF x < 16 THEN <<HexDigit(x)>>
    ELSE toString16(x \div 16) \o <<HexDigit(x % 16)>>

bigIntToHex(x) ==
    LET h == toString16(x)
    IN  <<48, 120>> \o (IF Len(h) % 2 = 1 THEN <<48>> \o h ELSE h)

\* The hashers that the prover layer may install, and their hash.
Hashers == {"poseidonWasm", "poseidonBackend"}

hash(impl, inputs) ==
    IF impl = "poseidonWasm" THEN poseidon(inputs)
    ELSE (poseidon(inputs) * 2 + 1) % SubOrder

\* The ordered tuple that computeCommitment builds for the hasher.
CommitmentInputs(priv) ==
    LET patient == toField(priv.patientId)
        provider == toField(priv.providerId)
        codes == encodeServiceCodes(priv.serviceCodes)
        amount == toField(priv.invoiceAmount)
    IN  IF patient.ok /\ provider.ok /\ codes.ok /\ amount.ok
        THEN Value(<<patient.value, provider.value>> \o codes.value
                       \o <<amount.value>>)
        ELSE Throws

HasherNotSet == "Poseidon hasher not set"
NoOutcome == [ok |-> FALSE, error |-> "", inputs |-> <<>>, impl |-> NoHasher,
              value |-> <<>>]

\* Mutant: the hasher is asked for before it is looked at.
computeCommitment_noGuard(impl, priv) ==
    LET inputs == CommitmentInputs(priv)
    IN  IF ~inputs.ok THEN [NoOutcome EXCEPT !.error = "Invalid input"]
        ELSE IF impl = NoHasher
        THEN [NoOutcome EXCEPT !.error = "TypeError"]
        ELSE [ok |-> TRUE, error |-> "", inputs |-> inputs.value,
              impl |-> impl, value |-> bigIntToHex(hash(impl, inputs.value))]

\* computeCommitment(priv) with the poseidonImpl of the moment.
computeCommitment(impl, priv) ==
    IF impl = NoHasher THEN [NoOutcome EXCEPT !.error = HasherNotSet]
    ELSE LET inputs == CommitmentInputs(priv)
         IN  IF ~inputs.ok THEN [NoOutcome EXCEPT !.error = "Invalid input"]
             ELSE [ok |-> TRUE, error |-> "", inputs |-> inputs.value,
                   impl |-> impl,
                   value |-> bigIntToHex(hash(impl, inputs.value))]

\* The private claims of the calls.  Identifiers: "1", "01", "P" and "7",
\* "0x7"; service codes: "A", "0A", " b" and "-"; amounts: 200 and 1.5.
MaxCodes == 1

PatientIdValues == {Str(<<49>>), Str(<<48, 49>>), Str(<<80>>)}
ProviderIdValues == {Str(<<55>>), Str(<<48, 120, 55>>)}
ServiceCodes == {<<65>>, <<48, 65>>, <<32, 98>>, <<45>>}
ServiceCodeLists == UNION {[1..n -> ServiceCodes] : n \in 0..MaxCodes}
InvoiceAmounts == {Num(400), Num(3)}

PrivateClaims ==
    [patientId : PatientIdValues, providerId : ProviderIdValues,
     serviceCodes : ServiceCodeLists, invoiceAmount : InvoiceAmounts]

\* setPoseidonHasher(impl)
SetPoseidonHasher ==
    /\ \E impl \in Hashers :
           /\ poseidonImpl' = impl
           /\ utilCall' = [fn |-> "setPoseidonHasher", impl |-> impl]
    /\ UNCHANGED <<initialized, created, privateState, now, claimCounter,
                   claims, claimStatuses, verificationHashes, returned,
                   lastCall, apiVars, serviceVars,
                   logSink>>

\* computeCommitment(priv)
ComputeCommitment ==
    /\ \E priv \in PrivateClaims :
           utilCall' = [fn |-> "computeCommitment", priv |-> priv,
                        outcome |-> computeCommitment(poseidonImpl, priv)]
    /\ UNCHANGED <<initialized, created, privateState, now, claimCounter,
                   claims, claimStatuses, verificationHashes, returned,
                   lastCall, apiVars, serviceVars,
                   poseidonImpl, logSink>>

NextCommitment == SetPoseidonHasher \/ ComputeCommitment

SpecCommitment == Init /\ [][NextCommitment]_vars

\* C19: poseidonImpl is set by setPoseidonHasher only, to a hasher, and
\* stays set; computeCommitment fails with the hasher-not-set error exactly
\* when no hasher is set at the call, and with a hasher set it hands the
\* ordered tuple of a well-formed claim to that hasher.
C19_HasherNotSetExactlyBeforeInstall ==
    [][/\ poseidonImpl' # poseidonImpl =>
              /\ utilCall'.fn = "setPoseidonHasher"
              /\ poseidonImpl' = utilCall'.impl
              /\ poseidonImpl' # NoHasher
       /\ utilCall'.fn = "setPoseidonHasher" => poseidonImpl' = utilCall'.impl
       /\ utilCall'.fn = "computeCommitment" =>
              LET outcome == utilCall'.outcome
                  inputs == CommitmentInputs(utilCall'.priv)
              IN  /\ (outcome.error = HasherNotSet)
                         = (poseidonImpl = NoHasher)
                  /\ (poseidonImpl # NoHasher /\ inputs.ok) =>
                         /\ outcome.ok
                         /\ outcome.inputs = inputs.value
                         /\ outcome.impl = poseidonImpl
                         /\ outcome.value
                                = bigIntToHex(hash(poseidonImpl,
                                                   inputs.value))]_vars

\* A commitment was computed by the second hasher installed.
C19_Witness ==
    /\ utilCall.fn = "computeCommitment"
    /\ utilCall.outcome.ok
    /\ utilCall.outcome.impl = "poseidonBackend"
    /\ poseidonImpl = "poseidonBackend"
    /\ Len(utilCall.outcome.inputs) = 2 + MaxCodes + 1

\* The private claims p and q differ in one private field: the patientId,
\* the providerId, the invoiceAmount or one of the service codes (compared
\* after normalizeServiceCodes).
DifferInOneField(p, q) ==
    LET pc == normalizeServiceCodes(p.serviceCodes)
        qc == normalizeServiceCodes(q.serviceCodes)
        oneCode == /\ Len(pc) = Len(qc)
                   /\ Cardinality({i \in DOMAIN pc : pc[i] # qc[i]}) = 1
        fields == {f \in {"patientId", "providerId", "invoiceAmount"} :
                       p[f] # q[f]}
    IN  \/ Cardinality(fields) = 1 /\ pc = qc
        \/ fields = {} /\ oneCode

\* C20: two private claims that differ in one private field are handed to
\* the hasher as different ordered tuples; in particular different service
\* codes are encoded as different integers.
C20_TuplesDiffer ==
    (utilCall.fn = "computeCommitment" /\ utilCall.outcome.ok) =>
        \A other \in PrivateClaims :
            (DifferInOneField(utilCall.priv, other)
                 /\ CommitmentInputs(other).ok)
                => CommitmentInputs(other).value # utilCall.outcome.inputs

\* The service codes "A" and "0A" were handed to the hasher as the same
\* integer.
LeadingZeroCollision ==
    /\ utilCall.fn = "computeCommitment"
    /\ utilCall.outcome.ok
    /\ utilCall.priv.serviceCodes = <<<<48, 65>>>>
    /\ utilCall.outcome.inputs
           = CommitmentInputs([utilCall.priv EXCEPT
                                   !.serviceCodes = <<<<65>>>>]).value

(***************************************************************************)
(* The attestation service.  POST /verify mails a one-time code and stores *)
(* it, POST /attestate takes it back and signs a grant.  The clock of the  *)
(* services counts milliseconds and advances by one time-to-live.          *)
(***************************************************************************)
\* const TTL_MS = Number(process.env.CHALLENGE_TTL_MS ?? 5 * 60 * 1000),
\* without the environment variable
TTL_MS == 5 * 60 * 1000
MaxMsTicks == 2

TickMs ==
    /\ nowMs < MaxMsTicks * TTL_MS
    /\ nowMs' = nowMs + TTL_MS
    /\ UNCHANGED <<initialized, created, privateState, now, claimCounter,
                   claims, claimStatuses, verificationHashes, returned,
                   lastCall, apiVars, utilVars, attestVars, authVars,
                   bridgeVars>>

\* Map.prototype.delete
MapDelete(m, k) == [x \in (DOMAIN m) \ {k} |-> m[x]]

\* String.prototype.toLowerCase
toLowerCase(str) ==
    [i \in DOMAIN str |-> IF str[i] \in 65..90 THEN str[i] + 32 ELSE str[i]]

\* typeof email !== "string" || !email.includes("@")
emailRequired(email) ==
    email.t # "string" \/ ~(\E i \in DOMAIN email.val : email.val[i] = 64)

\* The email of a request body: "A@", "a@" or "b"; the codes are asked
\* for under the first and the last.
EmailValues == {Str(<<65, 64>>), Str(<<97, 64>>), Str(<<98>>)}
VerifyEmails == {Str(<<65, 64>>), Str(<<98>>)}

\* genCode: Math.floor(100000 + Math.random() * 900000).toString(), of
\* which the model draws the least and the greatest.
GenCodes == {Str(toDecimal(100000)), Str(toDecimal(999999))}

\* proof.code of a request body: a code as a string, or as a number.
CodeValues == GenCodes \cup {Num(2 * 100000)}

\* putChallenge(email, code) at Date.now() = t
putChallenge(st, email, code, t) ==
    MapSet(st, toLowerCase(email.val), [code |-> code, expiresAt |-> t + TTL_MS])

\* Mutant: an accepted code stays in the store.
verifyChallenge_noDelete(st, email, code, t) ==
    LET key == toLowerCase(email.val)
    IN  IF key \notin DOMAIN st THEN [ok |-> FALSE, store |-> st]
        ELSE [ok |-> st[key].code = code /\ t <= st[key].expiresAt,
              store |-> st]

\* Mutant: the code is compared, the time is not.
verifyChallenge_noExpiry(st, email, code, t) ==
    LET key == toLowerCase(email.val)
    IN  IF key \notin DOMAIN st THEN [ok |-> FALSE, store |-> st]
        ELSE LET ok == st[key].code = code
             IN  [ok |-> ok, store |-> IF ok THEN MapDelete(st, key) ELSE st]

\* verifyChallenge(email, code) at Date.now() = t: what it returns and the
\* store it leaves.
verifyChallenge(st, email, code, t) ==
    LET key == toLowerCase(email.val)
    IN  IF key \notin DOMAIN st THEN [ok |-> FALSE, store |-> st]
        ELSE LET ok == st[key].code = code /\ t <= st[key].expiresAt
             IN  [ok |-> ok, store |-> IF ok THEN MapDelete(st, key) ELSE st]

\* POST /verify arrives: a body without an email is answered 400; else a
\* code is drawn and the handler waits for sendChallengeMail.
PostVerify(r) ==
    /\ verifyReqs[r].pc = "idle"
    /\ \E email \in VerifyEmails :
           IF emailRequired(email)
           THEN /\ verifyLast' = [made |-> TRUE, status |-> 400]
                /\ UNCHANGED verifyReqs
           ELSE /\ \E code \in GenCodes :
                       verifyReqs' = [verifyReqs EXCEPT ![r] =
                           [pc |-> "sending", email |-> email, code |-> code]]
                /\ UNCHANGED verifyLast
    /\ UNCHANGED <<initialized, created, privateState, now, claimCounter,
                   claims, claimStatuses, verificationHashes, returned,
                   lastCall, apiVars, utilVars, nowMs, otpStore, mailed,
                   attestLast, consumed, authVars, bridgeVars>>

\* Mutant: the code is stored whether or not the mail went out.
verifyResume_storeAnyway(st, req, sent, t) ==
    [store |-> putChallenge(st, req.email, req.code, t),
     status |-> IF sent THEN 200 ELSE 500]

\* The rest of the POST /verify handler once sendChallengeMail is settled:
\* putChallenge and {status: "sent"}, or the catch block with 500.
verifyResume(st, req, sent, t) ==
    IF sent
    THEN [store |-> putChallenge(st, req.email, req.code, t), status |-> 200]
    ELSE [store |-> st, status |-> 500]

\* sendChallengeMail is settled, with the mail sent or with an error, and
\* the handler runs to its end.
MailSettled(r) ==
    /\ verifyReqs[r].pc = "sending"
    /\ \E sent \in BOOLEAN :
           LET req == verifyReqs[r]
               out == verifyResume(otpStore, req, sent, nowMs)
           IN  /\ otpStore' = out.store
               /\ mailed' = IF sent
                            THEN mailed \cup {[to |-> req.email, code |-> req.code]}
                            ELSE mailed
               /\ verifyLast' = [made |-> TRUE, status |-> out.status]
               /\ consumed' = IF sent
                              THEN consumed \ {toLowerCase(req.email.val)}
                              ELSE consumed
    /\ verifyReqs' = [verifyReqs EXCEPT ![r] = NoVerifyReq]
    /\ UNCHANGED <<initialized, created, privateState, now, claimCounter,
                   claims, claimStatuses, verificationHashes, returned,
                   lastCall, apiVars, utilVars, nowMs, attestLast, authVars,
                   bridgeVars>>

\* POST /attestate: 400 for a body without email or proof.code, 401 when
\* verifyChallenge refuses, else the signed grant, or 500 when
\* classifying or signing throws.
PostAttestate ==
    /\ \E email \in EmailValues, code \in CodeValues, signs \in BOOLEAN :
           IF emailRequired(email) \/ code.t # "string"
           THEN /\ signs
                /\ attestLast' = [made |-> TRUE, turn |-> ~attestLast.turn,
                                  checked |-> FALSE, verified |-> FALSE,
                                  status |-> 400, grant |-> FALSE]
                /\ UNCHANGED <<otpStore, consumed>>
           ELSE LET v == verifyChallenge(otpStore, email, code, nowMs)
                IN  /\ v.ok \/ signs
                    /\ attestLast' =
                           [made |-> TRUE, turn |-> ~attestLast.turn,
                            email |-> email, code |-> code,
                            checked |-> TRUE, verified |-> v.ok,
                            status |-> IF ~v.ok THEN 401
                                       ELSE IF signs THEN 200 ELSE 500,
                            grant |-> v.ok /\ signs]
                    /\ otpStore' = v.store
                    /\ consumed' = IF v.ok
                                   THEN consumed \cup {toLowerCase(email.val)}
                                   ELSE consumed
    /\ UNCHANGED <<initialized, created, privateState, now, claimCounter,
                   claims, claimStatuses, verificationHashes, returned,
                   lastCall, apiVars, utilVars, nowMs, verifyReqs, mailed,
                   verifyLast, authVars, bridgeVars>>

NextAttestation ==
    \/ TickMs
    \/ \E r \in VerifyReqs : PostVerify(r)
    \/ \E r \in VerifyReqs : MailSettled(r)
    \/ PostAttestate

SpecAttestation == Init /\ [][NextAttestation]_vars

\* POST /attestate was served in this step.
Attestated == attestLast'.turn # attestLast.turn

\* The key of the last POST /attestate that reached verifyChallenge.
LastKey == toLowerCase(attestLast.email.val)

\* C21: an emailed code is single-use: once verifyChallenge has returned
\* true for an email, it returns false for that email, and POST /attestate
\* answers 401, until a POST /verify stores a code for it again.
C21_CodeIsSingleUse ==
    [][(Attestated /\ attestLast'.checked)
           => /\ LastKey' \in consumed
                     => ~attestLast'.verified /\ attestLast'.status = 401
              /\ attestLast'.verified
                     => LastKey' \in consumed' /\ LastKey' \notin DOMAIN otpStore'
       ]_vars

\* A code that had been accepted was presented once more and refused.
C21_Witness ==
    /\ attestLast.made /\ attestLast.checked
    /\ ~attestLast.verified /\ attestLast.status = 401
    /\ LastKey \in consumed
    /\ \E m \in mailed :
           toLowerCase(m.to.val) = LastKey /\ m.code = attestLast.code

\* The time of five minutes, in milliseconds.
FiveMinutes == 300000

\* The code presented is not the one stored for the email, if any is.
CodeMismatch(st, key, code) == key \notin DOMAIN st \/ st[key].code # code

\* More than five minutes have passed at t since the code of the email
\* was stored.
CodeExpired(st, key, t) ==
    key \in DOMAIN st /\ t - (st[key].expiresAt - TTL_MS) > FiveMinutes

Settled(r) == verifyReqs[r].pc = "sending" /\ verifyReqs'[r].pc = "idle"

\* The code was mailed to the address of the key.
MailedTo(ms, key, code) ==
    \E m \in ms : toLowerCase(m.to.val) = key /\ m.code = code

\* C30: a code is stored for an email only when its mail has been sent;
\* a failed send is answered 500 and leaves the store as it was; and
\* however the requests for one email interleave, the code stored, and so
\* the code accepted, is one that was mailed to that address.
C30_StoredCodeWasMailed ==
    [][/\ \A k \in DOMAIN otpStore' :
              /\ MailedTo(mailed', k, otpStore'[k].code)
              /\ (k \notin DOMAIN otpStore \/ otpStore'[k] # otpStore[k])
                     => \E r \in VerifyReqs :
                            /\ Settled(r)
                            /\ verifyLast'.status = 200
                            /\ toLowerCase(verifyReqs[r].email.val) = k
                            /\ verifyReqs[r].code = otpStore'[k].code
       /\ \A r \in VerifyReqs :
              (Settled(r) /\ mailed' = mailed /\ verifyLast'.status # 200)
                  => verifyLast'.status = 500 /\ otpStore' = otpStore
       /\ (Attestated /\ attestLast'.verified)
              => MailedTo(mailed, LastKey', attestLast'.code)
      ]_vars

\* A send failed while a code was stored and another request was waiting
\* for its mail.
C30_Witness ==
    /\ verifyLast.made /\ verifyLast.status = 500
    /\ \E k \in DOMAIN otpStore, r \in VerifyReqs :
           /\ verifyReqs[r].pc = "sending"
           /\ toLowerCase(verifyReqs[r].email.val) = k
           /\ verifyReqs[r].code # otpStore[k].code

(***************************************************************************)
(* AuthService of the API bridge: challenges signed by the wallet and the  *)
(* sessions they open.  A nonce and a token are randomBytes(32); the model *)
(* numbers them in the order they are drawn.  An ed25519 signature is held *)
(* as the key that made it and the message it was made over.               *)
(***************************************************************************)
CHALLENGE_TTL_MS == 5 * 60 * 1000
SESSION_TTL_MS == 24 * 60 * 60 * 1000
MaxChallenges == 2
MaxSessions == 2
MaxSessionTicks == 2

\* The addresses of the requests: "aa", " aa" and "bb".
Addresses == {<<97, 97>>, <<32, 97, 97>>, <<98, 98>>}

\* The public key an address denotes: fromHex(cleanAddress)
publicKeyOf(cleanAddress) == cleanAddress

\* A signature of 64 bytes made with the key of an address over a nonce,
\* and a string that is no signature of 64 bytes.
SignatureBy(cleanAddress, nonce) ==
    [t |-> "string", size |-> 64, by |-> publicKeyOf(cleanAddress),
     over |-> nonce]
BadSizeSignature == [t |-> "string", size |-> 1, by |-> <<>>, over |-> 0]
EmptySignature == [t |-> "string", size |-> 0, by |-> <<>>, over |-> 0]

\* The signature of a request body: none, "", a string of another size,
\* or a signature by one of the wallets over one of the nonces.
SignatureValues ==
    {Undefined, EmptySignature, BadSizeSignature}
        \cup {SignatureBy(trim(a), n) : a \in Addresses, n \in 1..MaxChallenges}

\* nacl.sign.detached.verify(message, signature, publicKey), which throws
\* for a signature that is not 64 bytes long
naclVerify(message, signature, publicKey) ==
    IF signature.size # 64 THEN Throws
    ELSE Value(signature.by = publicKey /\ signature.over = message)

\* cleanupExpiredChallenges at Date.now() = t
cleanupExpiredChallenges(st, t) ==
    [a \in {b \in DOMAIN st : ~(st[b].createdAt < t - CHALLENGE_TTL_MS)}
        |-> st[a]]

\* cleanupExpiredSessions at Date.now() = t
cleanupExpiredSessions(st, t) ==
    [k \in {b \in DOMAIN st : ~(st[b].createdAt < t - SESSION_TTL_MS)}
        |-> st[k]]

\* createChallenge(address) with the nonce drawn, for an address that is
\* not blank
createChallenge(st, address, nonce, t) ==
    MapSet(cleanupExpiredChallenges(st, t), trim(address),
           [nonce |-> nonce, createdAt |-> t])

\* Mutant: a challenge does not expire.
authVerifyChallenge_noExpiry(st, address, signatureHex, t) ==
    LET cleanAddress == trim(address)
    IN  IF cleanAddress \notin DOMAIN st THEN [ok |-> FALSE, store |-> st]
        ELSE IF signatureHex.t = "undefined" \/ signatureHex.size = 0
        THEN [ok |-> TRUE, store |-> MapDelete(st, cleanAddress)]
        ELSE LET isValid == naclVerify(st[cleanAddress].nonce, signatureHex,
                                       publicKeyOf(cleanAddress))
             IN  IF isValid.ok /\ isValid.value
                 THEN [ok |-> TRUE, store |-> MapDelete(st, cleanAddress)]
                 ELSE [ok |-> FALSE, store |-> st]

\* AuthService.verifyChallenge(address, signatureHex) at Date.now() = t:
\* what it returns and the challenge store it leaves.
authVerifyChallenge(st, address, signatureHex, t) ==
    LET cleanAddress == trim(address)
    IN  IF cleanAddress \notin DOMAIN st THEN [ok |-> FALSE, store |-> st]
        ELSE IF t - st[cleanAddress].createdAt > CHALLENGE_TTL_MS
        THEN [ok |-> FALSE, store |-> MapDelete(st, cleanAddress)]
        ELSE IF signatureHex.t = "undefined" \/ signatureHex.size = 0
        THEN [ok |-> TRUE, store |-> MapDelete(st, cleanAddress)]
        ELSE LET isValid == naclVerify(st[cleanAddress].nonce, signatureHex,
                                       publicKeyOf(cleanAddress))
             IN  IF isValid.ok /\ isValid.value
                 THEN [ok |-> TRUE, store |-> MapDelete(st, cleanAddress)]
                 ELSE [ok |-> FALSE, store |-> st]

\* createSession(address) with the token drawn
createSession(st, address, token, t) ==
    MapSet(cleanupExpiredSessions(st, t), token,
           [address |-> trim(address), createdAt |-> t])

\* Mutant: getSession reads the store without the cleanup.
getSession_noCleanup(st, token, t) ==
    [session |-> IF token \in DOMAIN st THEN st[token] ELSE Undefined,
     store |-> st]

\* getSession(token) at Date.now() = t: what it returns and the session
\* store it leaves.
getSession(st, token, t) ==
    LET kept == cleanupExpiredSessions(st, t)
    IN  [session |-> IF token \in DOMAIN kept THEN kept[token] ELSE Undefined,
         store |-> kept]

\* revokeSession(token)
revokeSession(st, token) == MapDelete(st, token)

\* POST /challenge, or createChallenge called by another service.
CreateChallenge ==
    /\ nonces < MaxChallenges
    /\ nonces' = nonces + 1
    /\ \E address \in Addresses :
           challengeStore' =
               createChallenge(challengeStore, address, nonces + 1, nowMs)
    /\ UNCHANGED <<initialized, created, privateState, now, claimCounter,
                   claims, claimStatuses, verificationHashes, returned,
                   lastCall, apiVars, utilVars, nowMs, attestVars,
                   sessionStore, issued, revoked, authLast, bridgeVars>>

\* The signature verifies over the outstanding nonce of the address under
\* the key the address denotes.
ValidSignature(st, address, signature) ==
    /\ trim(address) \in DOMAIN st
    /\ signature.t = "string"
    /\ naclVerify(st[trim(address)].nonce, signature,
                  publicKeyOf(trim(address))) = Value(TRUE)

\* POST /verify of the auth router: verifyChallenge, then 401 or
\* createSession and the session in the answer.
PostAuthVerify ==
    /\ Len(issued) < MaxSessions
    /\ \E address \in Addresses, signature \in SignatureValues :
           LET v == authVerifyChallenge(challengeStore, address, signature,
                                        nowMs)
               token == Len(issued) + 1
           IN  /\ challengeStore' = v.store
               /\ sessionStore' =
                      IF v.ok
                      THEN createSession(sessionStore, address, token, nowMs)
                      ELSE sessionStore
               /\ issued' = IF v.ok
                            THEN Append(issued, [address |-> address,
                                                 at |-> nowMs])
                            ELSE issued
               /\ authLast' =
                      [made |-> TRUE, turn |-> ~authLast.turn,
                       fn |-> "verifyChallenge", address |-> address,
                       given |-> signature.t = "string" /\ signature.size > 0,
                       signed |-> ValidSignature(challengeStore, address,
                                                 signature),
                       verified |-> v.ok,
                       status |-> IF v.ok THEN 200 ELSE 401,
                       token |-> IF v.ok THEN token ELSE 0]
    /\ UNCHANGED <<initialized, created, privateState, now, claimCounter,
                   claims, claimStatuses, verificationHashes, returned,
                   lastCall, apiVars, utilVars, nowMs, attestVars, revoked,
                   nonces, bridgeVars>>

NextAuth == TickMs \/ CreateChallenge \/ PostAuthVerify

SpecAuth == Init /\ [][NextAuth]_vars

\* C24: wallet authentication is cryptographic: verifyChallenge returns
\* true and POST /verify opens a session only for a request whose
\* signature verifies over the outstanding nonce of the address under the
\* key of the address.
C24_SessionOnlyForValidSignature ==
    (authLast.made /\ authLast.fn = "verifyChallenge" /\ authLast.verified)
        => authLast.signed

\* A session was opened with a signature that verifies.
SessionForSigner ==
    authLast.made /\ authLast.fn = "verifyChallenge" /\ authLast.verified
        /\ authLast.signed /\ authLast.token \in DOMAIN sessionStore

\* verifyChallenge was called in this step.
ChallengeVerified ==
    authLast'.turn # authLast.turn /\ authLast'.fn = "verifyChallenge"

\* The clean address of the call of this step.
CalledAddress == trim(authLast'.address)

\* C25: verifyChallenge returns true only for a challenge that is in the
\* store, so created by createChallenge and not consumed since, and that
\* was created at most five minutes earlier; a successful or an expired
\* verification removes the challenge, a verification that fails on the
\* signature leaves the store as it was; and a challenge enters the store
\* by createChallenge only.
C25_ChallengeOutstandingAndFresh ==
    [][/\ ChallengeVerified =>
              /\ authLast'.verified
                     => /\ CalledAddress \in DOMAIN challengeStore
                        /\ nowMs - challengeStore[CalledAddress].createdAt
                               <= FiveMinutes
                        /\ CalledAddress \notin DOMAIN challengeStore'
              /\ (/\ CalledAddress \in DOMAIN challengeStore
                  /\ nowMs - challengeStore[CalledAddress].createdAt
                         > FiveMinutes)
                     => /\ ~authLast'.verified
                        /\ CalledAddress \notin DOMAIN challengeStore'
              /\ (/\ CalledAddress \in DOMAIN challengeStore
                  /\ nowMs - challengeStore[CalledAddress].createdAt
                         <= FiveMinutes
                  /\ ~authLast'.verified)
                     => authLast'.given /\ challengeStore' = challengeStore
              /\ \A a \in DOMAIN challengeStore :
                     a # CalledAddress
                         => /\ a \in DOMAIN challengeStore'
                            /\ challengeStore'[a] = challengeStore[a]
       /\ \A a \in DOMAIN challengeStore' :
              (a \notin DOMAIN challengeStore
               \/ challengeStore'[a] # challengeStore[a])
                  => nonces' = nonces + 1 /\ challengeStore'[a].nonce = nonces'
      ]_vars

\* A verification failed on the signature and the challenge is still
\* there.
C25_Witness ==
    /\ authLast.made /\ authLast.fn = "verifyChallenge"
    /\ ~authLast.verified /\ authLast.given
    /\ trim(authLast.address) \in DOMAIN challengeStore
    /\ nowMs - challengeStore[trim(authLast.address)].createdAt <= FiveMinutes

(***************************************************************************)
(* The sessions of AuthService over a day and more.                        *)
(***************************************************************************)
\* The clock advances by the life of a session.
TickSession ==
    /\ nowMs < MaxSessionTicks * SESSION_TTL_MS
    /\ nowMs' = nowMs + SESSION_TTL_MS
    /\ UNCHANGED <<initialized, created, privateState, now, claimCounter,
                   claims, claimStatuses, verificationHashes, returned,
                   lastCall, apiVars, utilVars, attestVars, authVars,
                   bridgeVars>>

\* The tokens of the requests: those issued so far and one that was not.
Tokens == 1..(MaxSessions + 1)

\* createSession(address)
CreateSession ==
    /\ Len(issued) < MaxSessions
    /\ \E address \in Addresses :
           /\ sessionStore' = createSession(sessionStore, address,
                                            Len(issued) + 1, nowMs)
           /\ issued' = Append(issued, [address |-> address, at |-> nowMs])
    /\ UNCHANGED <<initialized, created, privateState, now, claimCounter,
                   claims, claimStatuses, verificationHashes, returned,
                   lastCall, apiVars, utilVars, nowMs, attestVars,
                   challengeStore, revoked, nonces, authLast, bridgeVars>>

\* GET /session/:token, or getSession called by another service.
GetSession ==
    /\ \E token \in Tokens :
           LET g == getSession(sessionStore, token, nowMs)
           IN  /\ sessionStore' = g.store
               /\ authLast' = [made |-> TRUE, turn |-> ~authLast.turn,
                               fn |-> "getSession", token |-> token,
                               session |-> g.session]
    /\ UNCHANGED <<initialized, created, privateState, now, claimCounter,
                   claims, claimStatuses, verificationHashes, returned,
                   lastCall, apiVars, utilVars, nowMs, attestVars,
                   challengeStore, issued, revoked, nonces, bridgeVars>>

\* POST /logout, or revokeSession called by another service.  A token that
\* was not issued yet is not the token of a later session.
RevokeSession ==
    /\ \E token \in Tokens :
           /\ sessionStore' = revokeSession(sessionStore, token)
           /\ revoked' = revoked \cup ({token} \cap (1..Len(issued)))
    /\ UNCHANGED <<initialized, created, privateState, now, claimCounter,
                   claims, claimStatuses, verificationHashes, returned,
                   lastCall, apiVars, utilVars, nowMs, attestVars,
                   challengeStore, issued, nonces, authLast, bridgeVars>>

NextSession == TickSession \/ CreateSession \/ GetSession \/ RevokeSession

SpecSession == Init /\ [][NextSession]_vars

\* The time of twenty-four hours, in milliseconds.
TwentyFourHours == 86400000

\* getSession was called in this step.
SessionAsked == authLast'.turn # authLast.turn /\ authLast'.fn = "getSession"

\* C26: getSession returns a session only for a token that createSession
\* issued at most 24 hours earlier and that was not revoked, and the
\* session carries the address the token was issued for; for a revoked
\* token it returns undefined ever after; and revokeSession leaves the
\* sessions of all other tokens as they were.
C26_SessionIssuedFreshNotRevoked ==
    [][/\ SessionAsked =>
              LET token == authLast'.token
                  session == authLast'.session
              IN  /\ session # Undefined
                         => /\ token \in 1..Len(issued)
                            /\ nowMs - issued[token].at <= TwentyFourHours
                            /\ token \notin revoked
                            /\ session.address = trim(issued[token].address)
                  /\ token \in revoked => session = Undefined
       /\ revoked' # revoked =>
              \A t \in DOMAIN sessionStore :
                  t \notin (revoked' \ revoked)
                      => t \in DOMAIN sessionStore'
                         /\ sessionStore'[t] = sessionStore[t]
      ]_vars

\* A token revoked within its 24 hours was asked for and not found, while
\* the session of another token is still there.
C26_Witness ==
    /\ authLast.made /\ authLast.fn = "getSession"
    /\ authLast.session = Undefined
    /\ authLast.token \in revoked
    /\ authLast.token \in 1..Len(issued)
    /\ nowMs - issued[authLast.token].at <= TwentyFourHours
    /\ \E t \in DOMAIN sessionStore : t # authLast.token

(***************************************************************************)
(* ClaimVerifierService of the API bridge on a deployed ClaimAPI.          *)
(***************************************************************************)
\* ClaimAPI.verifyClaim returned the ledger's claimId of the invocation.
ReturnsLedgerClaimId(r) == requests[r].claimId = requests[r].ledgerId

\* C27: ClaimAPI.verifyClaim returns the claimId the ledger assigned to the
\* submission, the first one (claimId 0) included.
C27_ReturnsLedgerClaimId ==
    \A r \in Requests : requests[r].pc = "done" => ReturnsLedgerClaimId(r)

\* callTx.verifyClaim returns the claimId the ledger assigned, and so does
\* ClaimAPI.verifyClaim for every submission but the first.
LaterClaimIdsReturned ==
    \A r \in Requests :
        (requests[r].pc = "done"
         /\ (requests[r].via = "callTx" \/ requests[r].ledgerId # 0))
            => ReturnsLedgerClaimId(r)

\* No verdict of the ledger: the call did not reach it.
NoVerdict == -1

\* The amount of a request body: the decimal text of the amount, or "1.5".
AmountTexts(amount) == {toDecimal(amount), <<49, 46, 53>>}

\* ClaimVerifierService.verifyClaim on a wallet whose ClaimAPI is deployed:
\* BigInt(claimData.amount), ClaimAPI.verifyClaim with the simulator call
\* and privateStateProvider.set, and the answer: VERIFIED with the claimId
\* returned, or REJECTED from the catch block.
BridgeVerifyClaim ==
    /\ created
    /\ claimCounter < MaxClaims
    /\ \E args \in LedgerArgs(now) :
         \E text \in AmountTexts(args.amount) :
           LET amount == decimalToBigInt(text)
           IN  IF ~amount.ok
               THEN /\ bridgeLast' =
                           [made |-> TRUE, turn |-> ~bridgeLast.turn,
                            status |-> "REJECTED", claimId |-> toDecimal(0),
                            ledger |-> NoVerdict]
                    /\ UNCHANGED <<initialized, created, privateState, now,
                                   claimCounter, claims, claimStatuses,
                                   verificationHashes, returned, lastCall,
                                   store>>
               ELSE /\ verifyClaim([args EXCEPT !.amount = amount.value],
                                   ProviderPub)
                    /\ \E persisted \in BOOLEAN, random \in RandomClaimIds :
                         LET res == returned'[Len(returned')]
                             claimId == IF res.claimId = 0 THEN random
                                        ELSE res.claimId
                         IN  /\ store' =
                                    IF persisted
                                    THEN [present |-> TRUE,
                                          simulatorState |-> getState']
                                    ELSE store
                             /\ bridgeLast' =
                                    IF persisted
                                    THEN [made |-> TRUE,
                                          turn |-> ~bridgeLast.turn,
                                          status |-> "VERIFIED",
                                          claimId |-> toDecimal(claimId),
                                          ledger |-> StatusOf(res.isValid)]
                                    ELSE [made |-> TRUE,
                                          turn |-> ~bridgeLast.turn,
                                          status |-> "REJECTED",
                                          claimId |-> toDecimal(0),
                                          ledger |-> StatusOf(res.isValid)]
    /\ UNCHANGED <<requests, utilVars, nowMs, attestVars, authVars,
                   walletClaims, simpleReturned>>

NextBridge == Deploy \/ BridgeVerifyClaim

SpecBridge == Init /\ [][NextBridge]_vars

\* C23: the bridge answers VERIFIED only for a submission the ledger
\* approved; a submission the ledger rejected, or one whose backend call
\* failed, is answered REJECTED.
C23_VerifiedOnlyIfApproved ==
    (bridgeLast.made /\ bridgeLast.ledger # APPROVED)
        => bridgeLast.status = "REJECTED"

\* A call that failed in the backend, before or after the ledger was
\* reached, is answered REJECTED.
FailureIsRejected ==
    (bridgeLast.made /\ bridgeLast.ledger = NoVerdict)
        => bridgeLast.status = "REJECTED"

\* The ledger rejected a submission and the bridge answered VERIFIED.
RejectedAnsweredVerified ==
    bridgeLast.made /\ bridgeLast.status = "VERIFIED"
        /\ bridgeLast.ledger = REJECTED

(***************************************************************************)
(* Persistence of the ledger: getState of a simulator and restoreState on  *)
(* a fresh one.                                                            *)
(***************************************************************************)
\* Array.from(map.entries()) and new Map(entries)
MapEntries(m) == {<<k, m[k]>> : k \in DOMAIN m}
MapFrom(entries) ==
    [k \in {e[1] : e \in entries} |-> (CHOOSE e \in entries : e[1] = k)[2]]

\* A simulator just constructed by ClaimVerifierSimulator.create().
FreshSimulator ==
    [claimCounter |-> 0, claims |-> EmptyMap, claimStatuses |-> EmptyMap,
     verificationHashes |-> EmptyMap]

\* Mutant: the counter of the fresh simulator is kept.
restoreState_keepCounter(sim, state) ==
    [claimCounter |-> sim.claimCounter,
     claims |-> MapFrom(MapEntries(state.claims)),
     claimStatuses |-> MapFrom(MapEntries(state.claimStatuses)),
     verificationHashes |-> MapFrom(MapEntries(state.verificationHashes))]

\* restoreState(state) on the simulator sim, for the state that getState
\* returned: BigInt(state.claimCounter || 0) and new Map(...) of the
\* entries that Array.from(...entries()) listed.
restoreState(sim, state) ==
    [claimCounter |-> IF state.claimCounter = 0 THEN 0
                      ELSE state.claimCounter,
     claims |-> MapFrom(MapEntries(state.claims)),
     claimStatuses |-> MapFrom(MapEntries(state.claimStatuses)),
     verificationHashes |-> MapFrom(MapEntries(state.verificationHashes))]

\* The simulator is replaced by a fresh one with the sample rule set of
\* this moment, on which restoreState(getState()) of the old one is
\* applied; the state handed over is kept in the provider.
Restore ==
    /\ created
    /\ LET restored == restoreState(FreshSimulator, getState)
       IN  /\ claimCounter' = restored.claimCounter
           /\ claims' = restored.claims
           /\ claimStatuses' = restored.claimStatuses
           /\ verificationHashes' = restored.verificationHashes
    /\ privateState' = createSampleClaimPrivateState(now)
    /\ store' = [present |-> TRUE, simulatorState |-> getState]
    /\ lastCall' = NoCall
    /\ UNCHANGED <<initialized, created, now, returned, requests, utilVars,
                   serviceVars>>

\* A submission the sample rule set approves and one over its cap.
RestoreArgs(t) ==
    {MakeArgs(MEDICAL_INVOICE, 50000, t - OneDay, Encode(HOSPITAL_001),
              Encode(PATIENT_001), "selfKeyed"),
     MakeArgs(MEDICAL_INVOICE, 150000, t - OneDay, Encode(HOSPITAL_001),
              Encode(PATIENT_001), "selfKeyed")}

RestoreVerifyClaim ==
    /\ claimCounter < MaxClaims
    /\ \E args \in RestoreArgs(now) : verifyClaim(args, ProviderPub)
    /\ UNCHANGED <<apiVars, utilVars, serviceVars>>

NextRestore == Tick \/ CreateSimulator \/ RestoreVerifyClaim \/ Restore

SpecRestore == Init /\ [][NextRestore]_vars

\* C28: the ledger survives persistence: after restoreState(getState()) on
\* a fresh simulator every recorded claimId has the status and the
\* verification hash it had and the statistics are the same, and the next
\* verifyClaim is given the claimId equal to the number of claims recorded,
\* which no recorded claim has.
C28_RestorePreservesLedger ==
    [][/\ store' # store
              => /\ \A id \in DOMAIN claims :
                        /\ getClaimStatus(id)' = getClaimStatus(id)
                        /\ getClaimVerificationHash(id)'
                               = getClaimVerificationHash(id)
                 /\ DOMAIN claimStatuses' = DOMAIN claimStatuses
                 /\ getClaimStats' = getClaimStats
                 /\ claimCounter' = Cardinality(DOMAIN claims)
       /\ (store.present /\ Len(returned') = Len(returned) + 1)
              => /\ returned'[Len(returned')].claimId
                        = Cardinality(DOMAIN claims)
                 /\ returned'[Len(returned')].claimId \notin DOMAIN claims
      ]_vars

\* A ledger with claims was restored on a fresh simulator, which then took
\* a submission.
C28_Witness ==
    /\ store.present
    /\ store.simulatorState.claimCounter > 0
    /\ claimCounter > store.simulatorState.claimCounter
    /\ \A id \in DOMAIN store.simulatorState.claimStatuses :
           getClaimStatus(id) = store.simulatorState.claimStatuses[id]

(***************************************************************************)
(* SimpleAPIService of the API bridge: the claims of each wallet seed.     *)
(***************************************************************************)
MaxSimpleClaims == 4

WalletSeeds == {"seed-a", "seed-b"}

\* this.walletClaims.get(walletSeed) || []
claimsOf(wc, walletSeed) ==
    IF walletSeed \in DOMAIN wc THEN wc[walletSeed] ELSE <<>>

\* SimpleAPIService.verifyClaim(claimData) with the outcome drawn by
\* Math.random() > 0.15: the answer, and walletClaims as it leaves it.
simpleVerifyClaim(wc, walletSeed, isVerified) ==
    LET list == claimsOf(wc, walletSeed)
        claimId == toDecimal(Len(list) + 1)
        result == [walletSeed |-> walletSeed, claimId |-> claimId,
                   status |-> IF isVerified THEN "VERIFIED" ELSE "REJECTED"]
        claimRecord == [id |-> claimId, status |-> "VERIFIED"]
    IN  [result |-> result,
         walletClaims |-> IF isVerified
                          THEN MapSet(wc, walletSeed, Append(list, claimRecord))
                          ELSE wc]

\* SimpleAPIService.getClaimStatus(walletSeed, claimId): the positions of
\* the records that claims.find may answer with, of which it takes the
\* first.
simpleGetClaimStatus(wc, walletSeed, claimId) ==
    {i \in DOMAIN claimsOf(wc, walletSeed) :
         claimsOf(wc, walletSeed)[i].id = claimId}

\* deployContract or joinContract of a wallet: its list of claims is
\* created if it has none.
SimpleDeployContract ==
    /\ \E walletSeed \in WalletSeeds :
           walletClaims' = IF walletSeed \in DOMAIN walletClaims
                           THEN walletClaims
                           ELSE MapSet(walletClaims, walletSeed, <<>>)
    /\ UNCHANGED <<initialized, created, privateState, now, claimCounter,
                   claims, claimStatuses, verificationHashes, returned,
                   lastCall, apiVars, utilVars, nowMs, attestVars, authVars,
                   bridgeLast, simpleReturned>>

SimpleVerifyClaim ==
    /\ Len(simpleReturned) < MaxSimpleClaims
    /\ \E walletSeed \in WalletSeeds, isVerified \in BOOLEAN :
           LET out == simpleVerifyClaim(walletClaims, walletSeed, isVerified)
           IN  /\ walletClaims' = out.walletClaims
               /\ simpleReturned' = Append(simpleReturned, out.result)
    /\ UNCHANGED <<initialized, created, privateState, now, claimCounter,
                   claims, claimStatuses, verificationHashes, returned,
                   lastCall, apiVars, utilVars, nowMs, attestVars, authVars,
                   bridgeLast>>

NextSimple == SimpleDeployContract \/ SimpleVerifyClaim

SpecSimple == Init /\ [][NextSimple]_vars

\* C29: for one wallet seed no two submissions are answered with the same
\* claimId, whatever the outcomes of the earlier ones.
C29_ClaimIdsUniquePerWallet ==
    \A i, j \in DOMAIN simpleReturned :
        (i < j /\ simpleReturned[i].walletSeed = simpleReturned[j].walletSeed)
            => simpleReturned[i].claimId # simpleReturned[j].claimId

\* getClaimStatus finds at most one record for a wallet seed and claimId.
StatusOfOneRecord ==
    \A i \in DOMAIN simpleReturned :
        Cardinality(simpleGetClaimStatus(walletClaims,
                        simpleReturned[i].walletSeed,
                        simpleReturned[i].claimId)) <= 1

\* A rejected submission and the one after it got the same claimId.
ClaimIdReusedAfterRejection ==
    \E i \in DOMAIN simpleReturned :
        /\ i + 1 \in DOMAIN simpleReturned
        /\ simpleReturned[i].status = "REJECTED"
        /\ simpleReturned[i + 1].walletSeed = simpleReturned[i].walletSeed
        /\ simpleReturned[i + 1].claimId = simpleReturned[i].claimId
====
